---- MODULE Spec2Model ----
(***************************************************************************)
(* Request pipeline of the JSON language server (src/src/server.rs):       *)
(* document sync, debounced validation, schema resolution with an          *)
(* off-thread fetch, and the three mutexes of JsonLanguageServer.          *)
(*                                                                         *)
(* The handler futures in flight are a bag of records; a record holds the  *)
(* handler's locals, the guards it holds and the await it is suspended at  *)
(* (pc).  The runtime is tokio's current_thread flavor                     *)
(* (src/src/main.rs:7): the handlers are polled on one thread, so the code *)
(* a handler runs between two awaits is one atomic action.  The awaits are *)
(* the debounce sleep, the fetch handed to the blocking worker,            *)
(* client.publish_diagnostics and client.apply_edit.                       *)
(***************************************************************************)
EXTENDS Integers, Sequences, FiniteSets, Bags, TLC

\* ------------------------------------------------------------------ bounds

\* Handler futures that may be in flight at the same time.
MaxHandlers == 2
\* didOpen/didChange notifications the client sends (each carries the next
\* document version).
MaxVersion == 3
\* fetch_schema invocations and failures counted per schema URI (the counters
\* saturate).
MaxFetches == 2
\* Clock ticks of the timed specification.
MaxTicks == 3
\* Bytes of a document text.
MaxTextLen == 5
\* Document versions the client sends with the texts and edits of a document.
MaxDocVersion == 3
\* Content changes of one didChange notification.
MaxChanges == 2

\* Entries of a json.schemas array.
MaxEntries == 2

\* Keywords of a compiled schema, and sub-schemas of a composition keyword.
MaxKeywords == 3
MaxSubschemas == 2

\* Characters of a "$ref" value.
MaxRefLen == 4

\* Members of the object of a schema JSON.
MaxMembers == 2

\* ------------------------------------------------------- program constants

DEBOUNCE_MS == 75

\* Milliseconds the clock of the timed specification advances per tick.
TickSteps == {25, 75}

\* ------------------------------------------------------------------ inputs

None == "none"

DocURIs == {"file:///a.json"}

\* U is the URI documents name inline, V the URI the configuration associates.
SchemaURIs == {"U", "V"}

\* Document texts, by what the pipeline reads of them.
\*   empty   : no syntax diagnostic, no root value
\*   broken  : a root object with a syntax error
\*   plain   : a clean root object without "$schema"
\*   inlineU : a clean root object with "$schema": "U"
Texts == {"empty", "broken", "plain", "inlineU"}

LockNames == {"state", "regex_cache", "debounce_versions"}

\* diagnostics::syntax_diagnostics(doc) is non-empty.
SyntaxDiagnostics(text) == text = "broken"

\* tree::root_value(&doc.tree).is_some()
RootValue(text) == text # "empty"

\* resolver::extract_schema_property(doc)
ExtractSchemaProperty(text) == IF text = "inlineU" THEN "U" ELSE None

\* Glob match of an association pattern against a document URI.
GlobMatch(pattern, doc_uri) == pattern = "**"

\* json.schemas payloads of didChangeConfiguration: no array at all, or an
\* array of entries; an entry may lack its url or its fileMatch.
\* url is None when the entry has no string url/uri; file_match_array says
\* whether fileMatch is an array.
Entries ==
    { [url |-> "V", file_match_array |-> TRUE, fileMatch |-> <<"**">>],
      [url |-> "V", file_match_array |-> FALSE, fileMatch |-> << >>],
      [url |-> None, file_match_array |-> TRUE, fileMatch |-> <<"**">>] }

Payloads ==
    {[array |-> FALSE, entries |-> <<>>], [array |-> TRUE, entries |-> <<>>]}
    \cup {[array |-> TRUE, entries |-> <<e>>] : e \in Entries}

\* ------------------------------------------------------------------- state

VARIABLES
    documents,          \* state.documents: open URI -> [text, version]
    associations,       \* state.schemas: the association list
    cache,              \* state.schemas: schema URIs with a cached schema
    debounce_versions,  \* debounce_versions: URI -> counter (absent = 0)
    handlers,           \* bag of the handler futures in flight
    now,                \* clock, in ms
    ticks,              \* clock ticks taken
    client_version,     \* last document version the client sent
    change_publishes,   \* URI -> publishes of debounced validations, in order
    bump_times,         \* URI -> per counter bump (index = counter): its time,
                        \* and whether the edit was applied to an open document
    fetch_count,        \* schema URI -> fetch_schema invocations (saturating)
    fetch_failed,       \* schema URI -> failed fetches (saturating)
    document,           \* the Document of a URI, byte by byte, when open:
                        \* << >> or <<[text, version, line_index]>>
    input_edit,         \* the InputEdit its last change handed to the parser,
                        \* if any
    poisoned,           \* a method of the Document panicked
    content_changes,    \* params.content_changes of the last didChange
    settings,           \* params.settings of the last didChangeConfiguration:
                        \* << >> or <<settings>>
    schema,             \* a compiled JsonSchema
    resolved,           \* the last resolve_path_segment on it: << >> or
                        \* <<[seg, result]>>
    tree,               \* doc.tree of the Document, when it is kept
    definition,         \* the last goto_definition on it: << >> or
                        \* <<[position, response]>>
    raw                 \* the JSON value of a schema as it was fetched:
                        \* << >> or <<value>>

vars ==
    <<documents, associations, cache, debounce_versions, handlers, now, ticks,
      client_version, change_publishes, bump_times, fetch_count, fetch_failed,
      document, input_edit, poisoned, content_changes, settings,
      schema, resolved, tree, definition, raw>>

\* The params kept of the last notification of their kind.
Params == <<content_changes, settings>>

\* The functions called on their own and what they were called on.
Calls == <<schema, resolved, tree, definition, raw>>

\* The text each part of a handler's diagnostics was computed from.
NoDiags == [syntax |-> None, schema |-> None]

\* A handler future: the await it is suspended at (pc), the guards it holds
\* there (holds) and its locals that live across awaits: the debounce
\* counter value it holds (version), the diagnostics and document version
\* captured by validate_and_publish, the URI resolve_schema fetches (lookup)
\* and the schema it returned (schema).  Returned is a handler that ran to
\* its end.
Returned ==
    [op |-> "none", pc |-> "returned", uri |-> None, version |-> 0,
     holds |-> {}, diags |-> NoDiags, doc_version |-> 0, lookup |-> None,
     schema |-> None]

\* The server without its documents.
Quiet ==
    /\ associations = << >>
    /\ cache = {}
    /\ debounce_versions = [u \in DocURIs |-> 0]
    /\ handlers = EmptyBag
    /\ now = 0
    /\ ticks = 0
    /\ client_version = 0
    /\ change_publishes = [u \in DocURIs |-> << >>]
    /\ bump_times = [u \in DocURIs |-> << >>]
    /\ fetch_count = [s \in SchemaURIs |-> 0]
    /\ fetch_failed = [s \in SchemaURIs |-> 0]
    /\ input_edit = << >>
    /\ poisoned = FALSE
    /\ content_changes = << >>
    /\ settings = << >>

Constructed ==
    /\ Quiet
    /\ documents = [u \in {} |-> None]
    /\ document = << >>

Init ==
    /\ Constructed
    /\ schema = << >>
    /\ resolved = << >>
    /\ tree = << >>
    /\ definition = << >>
    /\ raw = << >>

InFlight == BagToSet(handlers)

\* A mutex is free when no handler in flight holds its guard.
Free(l) == \A rec \in InFlight : l \notin rec.holds

\* The runtime takes another handler future.
Room == BagCardinality(handlers) < MaxHandlers

\* The futures in flight after one more started and ran to its first await,
\* or to its end.
Spawned(rec) ==
    IF rec.pc = "returned" THEN handlers ELSE handlers (+) SetToBag({rec})

\* The futures in flight after handler rec ran on to its next await, or to its
\* end.
Polled(rec, next) == Spawned(next) (-) SetToBag({rec})

Start(op, uri) == [Returned EXCEPT !.op = op, !.uri = uri, !.pc = "running"]

Clock == <<now, ticks>>

\* ------------------------------------------------------ schema resolution

\* SchemaStore: the URI of the first association with a pattern matching
\* doc_uri, registration order.
RECURSIVE MatchAssociation(_, _)
MatchAssociation(assocs, doc_uri) ==
    IF assocs = << >> THEN None
    ELSE IF \E i \in DOMAIN Head(assocs).file_match :
                GlobMatch(Head(assocs).file_match[i], doc_uri)
         THEN Head(assocs).uri
         ELSE MatchAssociation(Tail(assocs), doc_uri)

\* SchemaStore::schema_for_document: the inline $schema is preferred over the
\* associations; a cached URI is Resolved, an uncached one NeedsFetch.
SchemaForDocument(doc_uri, inline_schema_uri) ==
    LET target == IF inline_schema_uri # None THEN inline_schema_uri
                  ELSE MatchAssociation(associations, doc_uri)
    IN  IF target = None THEN [tag |-> "None", uri |-> None]
        ELSE IF target \in cache THEN [tag |-> "Resolved", uri |-> target]
        ELSE [tag |-> "NeedsFetch", uri |-> target]

\* SchemaStore::insert_cache
InsertCache(c, uri) == c \cup {uri}

\* ---------------------------------------------------- validate_and_publish

\* A validation that looks for a schema whenever there is no syntax error.
CleanOnly(text) == ~SyntaxDiagnostics(text)

\* A validation that looks for a schema whenever there is a root value.
RootOnly(text) == RootValue(text)

\* validate_and_publish, line 128.
NeedsSchema(text) == ~SyntaxDiagnostics(text) /\ RootValue(text)

\* Guards that outlive their block.
GuardsKept(held) == held

\* validate_and_publish, line 164: the state and regex_cache guards are locals
\* of the `if needs_schema` block and are dropped at its end, before the
\* publish.
GuardsDropped(held) == {}

\* A validation that returns without a publish when the document was closed
\* while it awaited its schema.
ReturnsWhenClosed(rec, docs) ==
    IF rec.uri \in DOMAIN docs THEN [rec EXCEPT !.pc = "vp_publish"]
    ELSE Returned

\* validate_and_publish, lines 144-168: with a schema and the document still
\* open and holding a root value, the schema part of the diagnostics is
\* computed, under the state and regex_cache guards, from the document as it
\* is now; then client.publish_diagnostics is awaited.
SchemaValidated(rec, docs) ==
    [rec EXCEPT
        !.pc = "vp_publish",
        !.holds = GuardsDropped({"state", "regex_cache"}),
        !.diags = IF /\ rec.schema # None
                     /\ rec.uri \in DOMAIN docs
                     /\ RootValue(docs[rec.uri].text)
                  THEN [@ EXCEPT !.schema = docs[rec.uri].text]
                  ELSE @]

\* The handler after resolve_schema returned rec.schema, up to its next await:
\* hover and completion read the document and answer; validate_and_publish
\* validates and reaches client.publish_diagnostics.
Resumed(rec, docs) ==
    IF rec.op \in {"hover", "completion"} THEN Returned
    ELSE SchemaValidated(rec, docs)

\* resolve_schema, lines 65-79 and 89: Resolved and None return at once,
\* NeedsFetch hands fetch_schema to the blocking worker and awaits it.
Resolving(rec, inline_schema, docs) ==
    LET lookup == SchemaForDocument(rec.uri, inline_schema)
    IN  IF lookup.tag = "NeedsFetch"
        THEN [rec EXCEPT !.pc = "rs_fetch", !.lookup = lookup.uri]
        ELSE Resumed([rec EXCEPT !.schema = lookup.uri], docs)

\* A capture that ignores the "$schema" of the document.
NoInlineSchema(needs_schema, text) == None

\* validate_and_publish, lines 130-134: the inline $schema handed to
\* resolve_schema.
CaptureInlineSchema(needs_schema, text) ==
    IF needs_schema THEN ExtractSchemaProperty(text) ELSE None

\* A validation that publishes for a URI without a document.
PublishesUnopened(rec, docs) == [rec EXCEPT !.pc = "vp_publish"]

\* validate_and_publish, lines 118-142 and 166, up to its first await: return
\* when the document is not open; else capture the syntax diagnostics, the
\* version and the inline $schema, and resolve the schema when one is needed.
ValidateAndPublish(rec, docs) ==
    IF rec.uri \notin DOMAIN docs THEN Returned
    ELSE LET doc == docs[rec.uri]
             needs_schema == NeedsSchema(doc.text)
             inline_schema == CaptureInlineSchema(needs_schema, doc.text)
             captured ==
                 [rec EXCEPT !.diags = [NoDiags EXCEPT !.syntax = doc.text],
                             !.doc_version = doc.version]
         IN  IF needs_schema THEN Resolving(captured, inline_schema, docs)
             ELSE [captured EXCEPT !.pc = "vp_publish"]

\* Whether the diagnostics handler rec publishes were computed, the syntax
\* part and the schema part (when there is one), from the text the document
\* has in docs.
Fresh(rec, docs) ==
    /\ rec.uri \in DOMAIN docs
    /\ rec.diags.syntax = docs[rec.uri].text
    /\ rec.diags.schema \in {None, docs[rec.uri].text}

\* resolve_schema, lines 80-87, and what follows in the caller: the fetch
\* returned a value; compile it, insert it into the cache, go on.
FetchSucceeds(rec) ==
    /\ rec.pc = "rs_fetch"
    /\ Free("state") /\ Free("regex_cache")
    /\ cache' = InsertCache(cache, rec.lookup)
    /\ handlers' =
          Polled(rec, Resumed([rec EXCEPT !.schema = rec.lookup, !.lookup = None],
                              documents))
    /\ UNCHANGED <<documents, associations, debounce_versions, Clock,
                   client_version, fetch_failed>>

\* A failure that leaves an entry in the cache.
CachedAnyway(c, uri) == c \cup {uri}

\* The cache after a fetch that failed: `.ok()??` returns before insert_cache.
CacheAfterFailure(c, uri) == c

\* resolve_schema, line 80, and what follows in the caller: fetch_schema or
\* the worker task failed, resolve_schema returns None.
FetchFailure(rec) ==
    /\ rec.pc = "rs_fetch"
    /\ Free("state") /\ Free("regex_cache")
    /\ cache' = CacheAfterFailure(cache, rec.lookup)
    /\ handlers' =
          Polled(rec, Resumed([rec EXCEPT !.schema = None, !.lookup = None],
                              documents))
    /\ UNCHANGED <<documents, associations, debounce_versions, Clock,
                   client_version>>

FetchFails(rec) == FetchFailure(rec) /\ UNCHANGED fetch_failed

Saturating(n) == IF n < MaxFetches THEN n + 1 ELSE MaxFetches

\* The same step, counting the failed fetches of the URI.
RecordedFetchFails(rec) ==
    /\ FetchFailure(rec)
    /\ fetch_failed' = [fetch_failed EXCEPT ![rec.lookup] = Saturating(@)]

\* validate_and_publish, lines 166-168: client.publish_diagnostics returned;
\* the handler returns.
VpPublish(rec) ==
    /\ rec.pc = "vp_publish"
    /\ handlers' = Polled(rec, Returned)
    /\ UNCHANGED <<documents, associations, cache, debounce_versions, Clock,
                   client_version, fetch_failed>>

\* ----------------------------------------------------------- document sync

\* DocumentStore::open / Document::replace_full / Document::apply_edit, by
\* their effect on text and version.
WithDocument(docs, uri, text, version) ==
    [u \in DOMAIN docs \cup {uri} |->
        IF u = uri THEN [text |-> text, version |-> version] ELSE docs[u]]

\* A close that leaves the document in the store.
StillOpen(docs, uri) == docs

\* DocumentStore::close
WithoutDocument(docs, uri) == [u \in DOMAIN docs \ {uri} |-> docs[u]]

\* A validation that waits behind the debounce sleep.
Debounced(rec, docs) == [rec EXCEPT !.pc = "dv_sleep"]

\* did_save, line 273, as did_open, line 247: validate_and_publish is called
\* at once, not through debounced_validate.
ValidatesImmediately(rec, docs) == ValidateAndPublish(rec, docs)

\* did_open, lines 236-248: insert the document under the state lock, then
\* validate_and_publish.  The client opens a document it does not have open.
DidOpen(uri, text) ==
    /\ Room
    /\ Free("state") /\ Free("regex_cache")
    /\ uri \notin DOMAIN documents
    /\ client_version < MaxVersion
    /\ client_version' = client_version + 1
    /\ documents' = WithDocument(documents, uri, text, client_version + 1)
    /\ handlers' = Spawned(ValidatesImmediately(Start("did_open", uri), documents'))
    /\ UNCHANGED <<associations, cache, debounce_versions, Clock,
                   fetch_failed>>

\* did_save, lines 271-274.
DidSave(uri) ==
    /\ Room
    /\ Free("state") /\ Free("regex_cache")
    /\ uri \in DOMAIN documents
    /\ handlers' = Spawned(ValidatesImmediately(Start("did_save", uri), documents))
    /\ UNCHANGED <<documents, associations, cache, debounce_versions, Clock,
                   client_version, fetch_failed>>

\* did_close, lines 276-281: remove the document under the state lock.
DidClose(uri) ==
    /\ Room
    /\ Free("state")
    /\ uri \in DOMAIN documents
    /\ documents' = WithoutDocument(documents, uri)
    /\ handlers' = Spawned([Start("did_close", uri) EXCEPT !.pc = "dc_publish"])
    /\ UNCHANGED <<associations, cache, debounce_versions, Clock,
                   client_version, fetch_failed>>

\* did_close, lines 282-284: the publish of the empty diagnostics list
\* returned.
DcPublish(rec) ==
    /\ rec.pc = "dc_publish"
    /\ handlers' = Polled(rec, Returned)
    /\ UNCHANGED <<documents, associations, cache, debounce_versions, Clock,
                   client_version, fetch_failed>>

\* --------------------------------------------------------------- debounce

\* One counter for all URIs.
BumpedAll(versions, uri) == [u \in DOMAIN versions |-> versions[u] + 1]

\* debounced_validate, lines 96-101: the counter of the URI after the bump.
Bumped(versions, uri) == [versions EXCEPT ![uri] = @ + 1]

\* did_change, lines 250-269, and debounced_validate, lines 96-103: apply the
\* content changes under the state lock when the document is open (text is
\* the text they leave), bump the counter of the URI, sleep DEBOUNCE_MS.
DidChange(uri, text) ==
    /\ Room
    /\ Free("state") /\ Free("debounce_versions")
    /\ client_version < MaxVersion
    /\ client_version' = client_version + 1
    /\ documents' = IF uri \in DOMAIN documents
                    THEN WithDocument(documents, uri, text, client_version + 1)
                    ELSE documents
    /\ debounce_versions' = Bumped(debounce_versions, uri)
    /\ handlers' =
          Spawned([Start("did_change", uri) EXCEPT
                      !.pc = "dv_sleep", !.version = debounce_versions'[uri]])
    /\ UNCHANGED <<associations, cache, Clock, fetch_failed>>

\* A counter check that lets every validation through.
NeverSuperseded(current, version) == FALSE

\* debounced_validate, line 109.
Superseded(current, version) == current # version

\* debounced_validate, lines 105-113: after the sleep, read the counter under
\* the lock; return when a newer edit bumped it, else validate_and_publish.
\* The sleep may take any time.
DebounceCheck(rec) ==
    /\ rec.pc = "dv_sleep"
    /\ Free("debounce_versions") /\ Free("state") /\ Free("regex_cache")
    /\ handlers' =
          Polled(rec, IF Superseded(debounce_versions[rec.uri], rec.version)
                      THEN Returned
                      ELSE ValidateAndPublish(rec, documents))
    /\ UNCHANGED <<documents, associations, cache, debounce_versions, Clock,
                   client_version, fetch_failed>>

\* A sleep that returns at once.
NoSleep(bumped_at) == bumped_at

\* debounced_validate, line 103: the sleep starts at the bump and lasts
\* DEBOUNCE_MS.
SleepDeadline(bumped_at) == bumped_at + DEBOUNCE_MS

\* The same step against the clock: tokio's sleep returns no earlier than its
\* deadline.
TimedDebounceCheck(rec) ==
    /\ rec.pc = "dv_sleep"
    /\ now >= SleepDeadline(bump_times[rec.uri][rec.version].time)
    /\ DebounceCheck(rec)

\* Time passes.
Tick(d) ==
    /\ ticks < MaxTicks
    /\ ticks' = ticks + 1
    /\ now' = now + d
    /\ UNCHANGED <<documents, associations, cache, debounce_versions,
                   handlers, client_version, fetch_failed>>

\* ----------------------------------------------------------- configuration

\* did_change_configuration, lines 299-320: the entries with a string url/uri
\* and a fileMatch array, in payload order.
RECURSIVE ParseAssociations(_)
ParseAssociations(entries) ==
    IF entries = << >> THEN << >>
    ELSE LET e == Head(entries)
             rest == ParseAssociations(Tail(entries))
         IN  IF e.url # None /\ e.file_match_array
             THEN <<[file_match |-> e.fileMatch, uri |-> e.url]>> \o rest
             ELSE rest

\* A configuration change that drops the cached schemas.
Cleared(c) == {}

\* The schema cache after set_associations.
CacheAfterConfiguration(c) == c

\* did_change_configuration, lines 289-325: with an array at json.schemas,
\* set_associations under the state lock; otherwise nothing.
DidChangeConfiguration(payload) ==
    /\ payload.array
    /\ Free("state")
    /\ associations' = ParseAssociations(payload.entries)
    /\ cache' = CacheAfterConfiguration(cache)
    /\ UNCHANGED <<documents, debounce_versions, handlers, Clock,
                   client_version, fetch_failed>>

\* ------------------------------------------------------- feature requests

\* hover, lines 329-356, and completion, lines 360-392, on an open document:
\* under the state lock capture the inline $schema, then resolve_schema; the
\* request is answered at once unless the schema needs a fetch.
Feature(op, uri) ==
    /\ Room
    /\ Free("state")
    /\ uri \in DOMAIN documents
    /\ LET rec == Resolving(Start(op, uri),
                            ExtractSchemaProperty(documents[uri].text), documents)
       IN  /\ rec.pc = "rs_fetch"
           /\ handlers' = Spawned(rec)
    /\ UNCHANGED <<documents, associations, cache, debounce_versions, Clock,
                   client_version, fetch_failed>>

\* execute_command, lines 529-557: under the state lock compute the sort
\* edits of the open document; the guard is dropped before client.apply_edit
\* is awaited.
ExecuteCommand(uri) ==
    /\ Room
    /\ Free("state")
    /\ uri \in DOMAIN documents
    /\ handlers' =
          Spawned([Start("execute_command", uri) EXCEPT !.pc = "ec_apply_edit"])
    /\ UNCHANGED <<documents, associations, cache, debounce_versions, Clock,
                   client_version, fetch_failed>>

\* The requests answered from the document alone: document_symbol (396-409),
\* formatting (413-421), range_formatting (423-438), document_color (442-450),
\* folding_range (461-469), selection_range (473-484), document_link
\* (488-496), goto_definition (500-521).
ReadOnlyOps ==
    {"document_symbol", "formatting", "range_formatting", "document_color",
     "folding_range", "selection_range", "document_link", "goto_definition"}

\* Each of them takes the state lock, reads the document through a shared
\* reference, answers and returns without an await.
ReadOnlyFeature(op, uri) ==
    /\ Room
    /\ Free("state")
    /\ handlers' = Spawned([Start(op, uri) EXCEPT !.pc = "returned"])
    /\ UNCHANGED <<documents, associations, cache, debounce_versions, Clock,
                   client_version, fetch_failed>>

\* execute_command, lines 557-559: client.apply_edit returned.
EcApplyEdit(rec) ==
    /\ rec.pc = "ec_apply_edit"
    /\ handlers' = Polled(rec, Returned)
    /\ UNCHANGED <<documents, associations, cache, debounce_versions, Clock,
                   client_version, fetch_failed>>

\* ---------------------------------------------------------- specifications

\* The handlers a step starts or moves on: those with more copies in flight
\* after the step than before it.
Arrived == {rec \in BagToSet(handlers') :
               CopiesIn(rec, handlers') > CopiesIn(rec, handlers)}

\* resolve_schema, lines 77-79: a step that leaves one more handler awaiting
\* the worker has invoked fetch_schema once for the URI of its lookup.
CountFetches ==
    fetch_count' =
        [s \in SchemaURIs |->
            IF \E rec \in Arrived : rec.pc = "rs_fetch" /\ rec.lookup = s
            THEN Saturating(fetch_count[s])
            ELSE fetch_count[s]]

\* debounced_validate, lines 96-101: the time of each bump of a counter, and
\* whether the edit of that didChange was applied to an open document.
RecordBumps ==
    bump_times' =
        [u \in DocURIs |->
            IF debounce_versions'[u] # debounce_versions[u]
            THEN Append(bump_times[u],
                        [time |-> now, applied |-> u \in DOMAIN documents])
            ELSE bump_times[u]]

\* validate_and_publish, lines 166-168: the calls of
\* client.publish_diagnostics by debounced validations, each with the counter
\* value its handler holds and whether its diagnostics are fresh at the call.
RecordPublishes ==
    change_publishes' =
        [u \in DocURIs |->
            IF \E rec \in Arrived :
                  rec.pc = "vp_publish" /\ rec.op = "did_change" /\ rec.uri = u
            THEN LET rec == CHOOSE r \in Arrived :
                               r.pc = "vp_publish" /\ r.op = "did_change" /\ r.uri = u
                 IN  Append(change_publishes[u],
                            [version |-> rec.version, fresh |-> Fresh(rec, documents')])
            ELSE change_publishes[u]]

\* The request pipeline reads its documents by their class (Texts); the
\* byte-level Document stands still.
DocumentIdle == UNCHANGED <<document, input_edit, poisoned, Params, Calls>>

\* The specification keeps no history.
Unobserved == DocumentIdle /\ UNCHANGED <<fetch_count, bump_times, change_publishes>>

Next ==
    \/ \E uri \in DocURIs, text \in Texts : DidOpen(uri, text) /\ Unobserved
    \/ \E uri \in DocURIs, text \in Texts : DidChange(uri, text) /\ Unobserved
    \/ \E uri \in DocURIs : DidSave(uri) /\ Unobserved
    \/ \E uri \in DocURIs : DidClose(uri) /\ Unobserved
    \/ \E uri \in DocURIs : Feature("hover", uri) /\ Unobserved
    \/ \E uri \in DocURIs : Feature("completion", uri) /\ Unobserved
    \/ \E uri \in DocURIs : ExecuteCommand(uri) /\ Unobserved
    \/ \E op \in ReadOnlyOps, uri \in DocURIs :
          ReadOnlyFeature(op, uri) /\ Unobserved
    \/ \E payload \in Payloads : DidChangeConfiguration(payload) /\ Unobserved
    \/ \E rec \in InFlight : DebounceCheck(rec) /\ Unobserved
    \/ \E rec \in InFlight : FetchSucceeds(rec) /\ Unobserved
    \/ \E rec \in InFlight : FetchFails(rec) /\ Unobserved
    \/ \E rec \in InFlight : VpPublish(rec) /\ Unobserved
    \/ \E rec \in InFlight : DcPublish(rec) /\ Unobserved
    \/ \E rec \in InFlight : EcApplyEdit(rec) /\ Unobserved

\* Every interleaving of the handlers at their awaits; the debounce sleep may
\* take any time.
Spec == Init /\ [][Next]_vars

\* The bumps and the publishes of the debounced validations are recorded.
TimedObserved ==
    DocumentIdle /\ RecordBumps /\ RecordPublishes /\ UNCHANGED fetch_count

NextTimed ==
    \/ \E uri \in DocURIs, text \in Texts : DidOpen(uri, text) /\ TimedObserved
    \/ \E uri \in DocURIs, text \in Texts : DidChange(uri, text) /\ TimedObserved
    \/ \E d \in TickSteps : Tick(d) /\ TimedObserved
    \/ \E rec \in InFlight : TimedDebounceCheck(rec) /\ TimedObserved
    \/ \E rec \in InFlight : FetchSucceeds(rec) /\ TimedObserved
    \/ \E rec \in InFlight : FetchFails(rec) /\ TimedObserved
    \/ \E rec \in InFlight : VpPublish(rec) /\ TimedObserved

\* Edits and debounced validations of a document against the clock.
SpecTimed == Init /\ [][NextTimed]_vars

\* The fetches are counted.
FetchObserved ==
    DocumentIdle /\ CountFetches /\ UNCHANGED <<bump_times, change_publishes>>

NextFetch ==
    \/ \E uri \in DocURIs, text \in Texts : DidOpen(uri, text) /\ FetchObserved
    \/ \E uri \in DocURIs : DidSave(uri) /\ FetchObserved
    \/ \E uri \in DocURIs : Feature("hover", uri) /\ FetchObserved
    \/ \E uri \in DocURIs : Feature("completion", uri) /\ FetchObserved
    \/ \E payload \in Payloads : DidChangeConfiguration(payload) /\ FetchObserved
    \/ \E rec \in InFlight : FetchSucceeds(rec) /\ FetchObserved
    \/ \E rec \in InFlight : RecordedFetchFails(rec) /\ FetchObserved
    \/ \E rec \in InFlight : VpPublish(rec) /\ FetchObserved

\* Hover, completion and validation requests resolving schemas, with the
\* fetches counted and the failed ones too.
SpecFetch == Init /\ [][NextFetch]_vars

\* ------------------------------------------------ documents, byte by byte

\* The characters of the document texts, each as its UTF-8 bytes: an ASCII
\* letter, the newline, and U+1F600, which takes 4 bytes in UTF-8 and 2 code
\* units in UTF-16.
Alphabet == {<<"x">>, <<"\n">>, <<"F0", "9F", "98", "80">>}

\* A byte that continues a character.
Continuation(byte) == byte \in {"9F", "98", "80"}

\* char::len_utf8 and char::len_utf16, by the first byte of the character.
LenUtf8(byte) == IF byte = "F0" THEN 4 ELSE 1

LenUtf16(byte) == IF byte = "F0" THEN 2 ELSE 1

\* The strings of at most n characters.
RECURSIVE StringsOf(_)
StringsOf(n) ==
    IF n = 0 THEN {<< >>}
    ELSE LET shorter == StringsOf(n - 1)
         IN  shorter \cup {s \o ch : s \in shorter, ch \in Alphabet}

\* The texts a document is opened with or replaced by.
DocTexts == {text \in StringsOf(MaxTextLen) : Len(text) <= MaxTextLen}

\* The replacement texts of the edits.
NewTexts == StringsOf(1) \cup {<<"x", "\n">>}

\* LSP positions (line, character in UTF-16 code units) and ranges.
Positions == [line : 0..2, character : 0..2]

Ranges == [start : Positions, end : Positions]

\* The offset, line or column of a call that panics.
Panic == 0 - 1

\* str::is_char_boundary
IsCharBoundary(text, index) ==
    \/ index = 0
    \/ index = Len(text)
    \/ index < Len(text) /\ ~Continuation(text[index + 1])

\* &text[from..to] does not panic.
Slices(text, from, to) ==
    /\ from <= to
    /\ to <= Len(text)
    /\ IsCharBoundary(text, from)
    /\ IsCharBoundary(text, to)

\* LineIndex::new, lines 32-36, and LineIndex::update, lines 65-69: the line
\* start just past each newline of bytes, which begin at byte offset base.
RECURSIVE NewlineStarts(_, _)
NewlineStarts(bytes, base) ==
    IF bytes = << >> THEN << >>
    ELSE (IF Head(bytes) = "\n" THEN <<base + 1>> ELSE << >>)
         \o NewlineStarts(Tail(bytes), base + 1)

\* LineIndex::new
LineIndexNew(text) == <<0>> \o NewlineStarts(text, 0)

\* slice::partition_point(|&s| s <= bound) on the sorted line starts.
PartitionPoint(line_starts, bound) ==
    Cardinality({i \in DOMAIN line_starts : line_starts[i] <= bound})

\* A shift of the line starts after the edit that ignores the edit.
NoDelta(new_len, old_len) == 0

\* LineIndex::update, line 48.
Delta(new_len, old_len) == new_len - old_len

\* LineIndex::update: text is the text after the edit.
LineIndexUpdate(line_starts, text, start_byte, old_len, new_text) ==
    LET old_end == start_byte + old_len
        delta == Delta(Len(new_text), old_len)
        first_removed == PartitionPoint(line_starts, start_byte)
        last_removed == PartitionPoint(line_starts, old_end)
        lines_after ==
            [i \in 1..(Len(line_starts) - last_removed) |->
                line_starts[last_removed + i] + delta]
        new_starts == NewlineStarts(new_text, start_byte)
        rebuilt == SubSeq(line_starts, 1, first_removed) \o new_starts \o lines_after
    IN  IF rebuilt = << >> \/ rebuilt[1] # 0 THEN LineIndexNew(text) ELSE rebuilt

\* LineIndex::offset_of, lines 101-109: the bytes of the characters of
\* line_text before the column `character`.
RECURSIVE ScanColumn(_, _, _, _)
ScanColumn(line_text, utf16_offset, byte_offset, character) ==
    IF line_text = << >> \/ utf16_offset >= character THEN byte_offset
    ELSE LET ch == Head(line_text)
         IN  ScanColumn(SubSeq(line_text, LenUtf8(ch) + 1, Len(line_text)),
                        utf16_offset + LenUtf16(ch), byte_offset + LenUtf8(ch),
                        character)

\* LineIndex::offset_of
OffsetOf(line_starts, text, pos) ==
    IF pos.line >= Len(line_starts) THEN Len(text)
    ELSE LET line_start == line_starts[pos.line + 1]
             line_end == IF pos.line + 1 < Len(line_starts)
                         THEN line_starts[pos.line + 2]
                         ELSE Len(text)
         IN  IF ~Slices(text, line_start, line_end) THEN Panic
             ELSE line_start
                  + ScanColumn(SubSeq(text, line_start + 1, line_end), 0, 0,
                               pos.character)

\* The UTF-16 code units of the characters of bytes.
RECURSIVE Utf16Units(_)
Utf16Units(bytes) ==
    IF bytes = << >> THEN 0
    ELSE (IF Continuation(Head(bytes)) THEN 0 ELSE LenUtf16(Head(bytes)))
         + Utf16Units(Tail(bytes))

\* A line lookup that takes the insertion point for the line.
NoStepBack(insert) == insert

\* LineIndex::position_of, line 121: insert.saturating_sub(1)
LineOfInsert(insert) == IF insert > 0 THEN insert - 1 ELSE 0

\* LineIndex::position_of
PositionOf(line_starts, text, offset) ==
    LET clamped == IF offset < Len(text) THEN offset ELSE Len(text)
        exact == {i \in DOMAIN line_starts : line_starts[i] = clamped}
        insert == Cardinality({i \in DOMAIN line_starts : line_starts[i] < clamped})
        line == IF exact # {} THEN (CHOOSE i \in exact : TRUE) - 1
                ELSE LineOfInsert(insert)
        line_start == line_starts[line + 1]
    IN  IF line + 1 \notin DOMAIN line_starts \/ ~Slices(text, line_start, clamped)
        THEN [line |-> Panic, character |-> Panic]
        ELSE [line |-> line,
              character |-> Utf16Units(SubSeq(text, line_start + 1, clamped))]

\* tree::byte_to_point: the row and the byte column of a byte offset.
BytePoint(text, byte) ==
    LET newlines == {i \in 1..byte : i <= Len(text) /\ text[i] = "\n"}
        line_start == IF newlines = {} THEN 0
                      ELSE CHOOSE i \in newlines : \A j \in newlines : j <= i
    IN  [row |-> Cardinality(newlines), column |-> byte - line_start]

\* Document::new
DocumentNew(text, version) ==
    [text |-> text, version |-> version, line_index |-> LineIndexNew(text)]

\* Document::replace_full
ReplaceFull(d, text, version) ==
    [text |-> text, version |-> version, line_index |-> LineIndexNew(text)]

\* A new end point measured on the text before the splice.
MeasuredPreSplice(before, after, new_end_byte) == BytePoint(before, new_end_byte)

\* Document::apply_edit, line 203: the new end point is measured on the text
\* after the splice.
NewEndPosition(before, after, new_end_byte) == BytePoint(after, new_end_byte)

\* Document::apply_edit: the document and the InputEdit it leaves.  It
\* panics at the subtraction of line 192 (or, where overflow wraps, at the
\* replace_range of line 200) when the end of the range resolves before its
\* start.
ApplyEdit(d, range, new_text, version) ==
    LET start_byte == OffsetOf(d.line_index, d.text, range.start)
        old_end_byte == OffsetOf(d.line_index, d.text, range.end)
    IN  IF Panic \in {start_byte, old_end_byte} \/ start_byte > old_end_byte
        THEN [panics |-> TRUE]
        ELSE LET old_len == old_end_byte - start_byte
                 new_end_byte == start_byte + Len(new_text)
                 start_position == BytePoint(d.text, start_byte)
                 old_end_position == BytePoint(d.text, old_end_byte)
                 text == SubSeq(d.text, 1, start_byte) \o new_text
                         \o SubSeq(d.text, old_end_byte + 1, Len(d.text))
                 new_end_position == NewEndPosition(d.text, text, new_end_byte)
             IN  [panics |-> FALSE,
                  document |->
                     [text |-> text,
                      version |-> version,
                      line_index |->
                          LineIndexUpdate(d.line_index, text, start_byte, old_len,
                                          new_text)],
                  input_edit |->
                     [start_byte |-> start_byte,
                      old_end_byte |-> old_end_byte,
                      new_end_byte |-> new_end_byte,
                      start_position |-> start_position,
                      old_end_position |-> old_end_position,
                      new_end_position |-> new_end_position]]

\* The request pipeline stands still.
PipelineIdle ==
    UNCHANGED <<documents, associations, cache, debounce_versions, handlers,
                now, ticks, client_version, change_publishes, bump_times,
                fetch_count, fetch_failed, Params, Calls>>

\* DocumentStore::open
DocumentOpen(text) ==
    /\ ~poisoned
    /\ document = << >>
    /\ document' = <<DocumentNew(text, 1)>>
    /\ UNCHANGED <<input_edit, poisoned>>

\* DocumentStore::close
DocumentClose ==
    /\ ~poisoned
    /\ document # << >>
    /\ document' = << >>
    /\ input_edit' = << >>
    /\ UNCHANGED poisoned

\* did_change, line 264: a content change without a range; the text is
\* parsed afresh, no InputEdit is handed to the parser.
DocumentReplaceFull(text) ==
    /\ ~poisoned
    /\ document # << >>
    /\ document[1].version < MaxDocVersion
    /\ document' = <<ReplaceFull(document[1], text, document[1].version + 1)>>
    /\ input_edit' = << >>
    /\ UNCHANGED poisoned

\* did_change, line 261: a content change with a range.  A panic leaves the
\* text as it was and poisons the state lock did_change holds.
DocumentApplyEdit(range, new_text) ==
    /\ ~poisoned
    /\ document # << >>
    /\ document[1].version < MaxDocVersion
    /\ \E applied \in
             {ApplyEdit(document[1], range, new_text, document[1].version + 1)} :
           IF applied.panics
           THEN poisoned' = TRUE /\ UNCHANGED <<document, input_edit>>
           ELSE /\ Len(applied.document.text) <= MaxTextLen
                /\ document' = <<applied.document>>
                /\ input_edit' = <<applied.input_edit>>
                /\ UNCHANGED poisoned

NextDocument ==
    \/ \E text \in DocTexts : DocumentOpen(text) /\ PipelineIdle
    \/ DocumentClose /\ PipelineIdle
    \/ \E text \in DocTexts : DocumentReplaceFull(text) /\ PipelineIdle
    \/ \E range \in Ranges, new_text \in NewTexts :
          DocumentApplyEdit(range, new_text) /\ PipelineIdle

\* One document under the edits of its client.
SpecDocument == Init /\ [][NextDocument]_vars

\* ------------------------------------- didChange on the byte-level document

\* What the request pipeline reads of a byte-level text (see Texts): the
\* texts over Alphabet are empty or not JSON.
Class(text) == IF text = << >> THEN "empty" ELSE "broken"

\* The content changes of the didChange notifications: a change replaces a
\* range, or the whole text when it carries no range (<< >>).
SyncPositions == {[line |-> 0, character |-> 0], [line |-> 1, character |-> 0]}

SyncTexts == {<< >>, <<"\n">>, <<"x">>}

Changes ==
    [range : {<<r>> : r \in [start : SyncPositions, end : SyncPositions]} \cup {<< >>},
     text : SyncTexts]

\* The notifications of at most n changes.
RECURSIVE ChangesOf(_)
ChangesOf(n) ==
    IF n = 0 THEN {<< >>}
    ELSE LET shorter == ChangesOf(n - 1)
         IN  shorter \cup {Append(cs, ch) : cs \in shorter, ch \in Changes}

ContentChanges == ChangesOf(MaxChanges) \ {<< >>}

\* did_change, lines 257-266: one content change applied to the document.
ContentChange(acc, change, version) ==
    IF change.range = << >>
    THEN [panics |-> FALSE,
          document |-> ReplaceFull(acc.document, change.text, version),
          input_edit |-> << >>]
    ELSE LET applied == ApplyEdit(acc.document, change.range[1], change.text, version)
         IN  IF applied.panics THEN [acc EXCEPT !.panics = TRUE]
             ELSE [panics |-> FALSE,
                   document |-> applied.document,
                   input_edit |-> <<applied.input_edit>>]

\* The content changes, last one first.
Reversed(changes) == [i \in DOMAIN changes |-> changes[Len(changes) + 1 - i]]

\* did_change, line 256: `for change in params.content_changes`.
ContentChangesOrder(changes) == changes

\* did_change, lines 256-267: the changes applied one after the other, each
\* to the document the one before left; a panic ends the loop.
RECURSIVE ApplyContentChanges(_, _, _)
ApplyContentChanges(acc, changes, version) ==
    IF changes = << >> \/ acc.panics THEN acc
    ELSE ApplyContentChanges(ContentChange(acc, Head(changes), version),
                             Tail(changes), version)

\* did_open with its text byte by byte.
SyncDidOpen(uri, text) ==
    /\ ~poisoned
    /\ DidOpen(uri, Class(text))
    /\ document' = <<DocumentNew(text, client_version + 1)>>
    /\ input_edit' = << >>
    /\ UNCHANGED <<poisoned, Params, Calls>>

\* did_change on the open document with its content changes byte by byte:
\* lines 253-267 under the state lock, then debounced_validate.  When a change
\* panics, the changes before it stay applied, the state lock is poisoned and
\* the handler ends there.
SyncDidChange(uri, changes) ==
    /\ ~poisoned
    /\ Room
    /\ Free("state") /\ Free("debounce_versions")
    /\ client_version < MaxVersion
    /\ uri \in DOMAIN documents
    /\ content_changes' = changes
    /\ UNCHANGED <<settings, Calls>>
    /\ \E after \in
          {ApplyContentChanges(
               [panics |-> FALSE, document |-> document[1], input_edit |-> input_edit],
               ContentChangesOrder(changes), client_version + 1)} :
          /\ Len(after.document.text) <= MaxTextLen
          /\ document' = <<after.document>>
          /\ input_edit' = after.input_edit
          /\ poisoned' = after.panics
          /\ IF after.panics
             THEN UNCHANGED <<documents, associations, cache, debounce_versions,
                              handlers, Clock, client_version, fetch_failed>>
             ELSE DidChange(uri, Class(after.document.text))

\* A handler of the pipeline moves on; the document stands still.
SyncResumed ==
    /\ ~poisoned
    /\ UNCHANGED <<document, input_edit, poisoned, Params, Calls>>

\* The specification keeps no history.
SyncObserved == UNCHANGED <<fetch_count, bump_times, change_publishes>>

NextSync ==
    \/ \E uri \in DocURIs, text \in {<< >>, <<"x", "x">>} :
          SyncDidOpen(uri, text) /\ SyncObserved
    \/ \E uri \in DocURIs, changes \in ContentChanges :
          SyncDidChange(uri, changes) /\ SyncObserved
    \/ \E rec \in InFlight : DebounceCheck(rec) /\ SyncResumed /\ SyncObserved
    \/ \E rec \in InFlight : VpPublish(rec) /\ SyncResumed /\ SyncObserved

\* didOpen and didChange with the texts and content changes byte by byte.
SpecSync == Init /\ [][NextSync]_vars

\* ---------------------------------------- didChangeConfiguration, by value

\* serde_json::Value, as far as did_change_configuration looks into it; a
\* key that is not there is the value "absent".
JsonAbsent == [kind |-> "absent", str |-> "", items |-> << >>]
JsonNumber == [kind |-> "number", str |-> "", items |-> << >>]
JsonString(s) == [kind |-> "string", str |-> s, items |-> << >>]
JsonArray(items) == [kind |-> "array", str |-> "", items |-> items]

\* The entries of json.schemas: something that is no object, or an object
\* with or without url, uri and fileMatch, of the right type or not.
SchemaEntries ==
    {[object |-> FALSE, url |-> JsonAbsent, uri |-> JsonAbsent,
      fileMatch |-> JsonAbsent]}
    \cup {[object |-> TRUE, url |-> url, uri |-> uri, fileMatch |-> fileMatch] :
             url \in {JsonAbsent, JsonNumber, JsonString("V")},
             uri \in {JsonAbsent, JsonString("W")},
             fileMatch \in {JsonNumber, JsonArray(<<JsonString("**")>>)}}
    \cup {[object |-> TRUE, url |-> JsonString("V"), uri |-> JsonAbsent,
           fileMatch |-> fileMatch] :
             fileMatch \in {JsonAbsent,
                            JsonArray(<<JsonNumber, JsonString("*.json")>>)}}

RECURSIVE EntriesOf(_)
EntriesOf(n) ==
    IF n = 0 THEN {<< >>}
    ELSE LET shorter == EntriesOf(n - 1)
         IN  shorter \cup {Append(entries, e) :
                              entries \in shorter, e \in SchemaEntries}

\* params.settings: by how far the path settings / json / schemas leads, and
\* the entries of the array at its end.
Settings ==
    {[shape |-> shape, entries |-> << >>] :
        shape \in {"not_object", "no_json", "json_not_object", "no_schemas",
                   "schemas_not_array"}}
    \cup {[shape |-> "schemas_array", entries |-> entries] :
             entries \in EntriesOf(MaxEntries)}

\* did_change_configuration, lines 291-297: Some(schemas) or None.
JsonSchemas(s) == IF s.shape = "schemas_array" THEN <<s.entries>> ELSE << >>

\* lines 303-305: obj.get("url").or_else(|| obj.get("uri")): uri is looked up
\* only when there is no url key.
UrlOrUri(obj) == IF obj.url.kind # "absent" THEN obj.url ELSE obj.uri

\* lines 308-313: the elements of fileMatch that are strings.
RECURSIVE FileMatch(_)
FileMatch(items) ==
    IF items = << >> THEN << >>
    ELSE IF Head(items).kind = "string"
         THEN <<Head(items).str>> \o FileMatch(Tail(items))
         ELSE FileMatch(Tail(items))

\* lines 301-319, the closure of filter_map: << >> for None.
SchemaAssociation(entry) ==
    IF ~entry.object THEN << >>
    ELSE IF UrlOrUri(entry).kind # "string" THEN << >>
    ELSE IF entry.fileMatch.kind # "array" THEN << >>
    ELSE <<[file_match |-> FileMatch(entry.fileMatch.items),
            uri |-> UrlOrUri(entry).str]>>

\* lines 299-320: schemas.iter().filter_map(..).collect()
RECURSIVE Associations(_)
Associations(entries) ==
    IF entries = << >> THEN << >>
    ELSE SchemaAssociation(Head(entries)) \o Associations(Tail(entries))

\* did_change_configuration, lines 289-325, on a payload given by value.
ConfigDidChangeConfiguration(s) ==
    /\ settings' = <<s>>
    /\ IF JsonSchemas(s) # << >>
       THEN /\ Free("state")
            /\ associations' = Associations(JsonSchemas(s)[1])
            /\ cache' = CacheAfterConfiguration(cache)
       ELSE UNCHANGED <<associations, cache>>
    /\ UNCHANGED <<documents, debounce_versions, handlers, Clock,
                   client_version, change_publishes, bump_times, fetch_count,
                   fetch_failed, document, input_edit, poisoned,
                   content_changes, Calls>>

NextConfig == \E s \in Settings : ConfigDidChangeConfiguration(s)

SpecConfig == Init /\ [][NextConfig]_vars

\* ------------------------------------------------- schema path resolution

\* SchemaOrBool: Schema(s) or Bool(_); as_schema is value.
SchemaOrBoolSchema(s) == [is_schema |-> TRUE, value |-> <<s>>]
SchemaOrBoolBool == [is_schema |-> FALSE, value |-> << >>]
AsSchema(x) == x.value

\* JsonSchema::default() with a title to tell the schema by: the fields
\* resolve_path_segment reads, all empty.  Options are << >> or <<x>>.
JsonSchemaDefault(title) ==
    [title |-> title, properties |-> << >>, prefix_items |-> << >>,
     items |-> << >>, all_of |-> << >>, any_of |-> << >>, one_of |-> << >>,
     then_schema |-> << >>, else_schema |-> << >>,
     additional_properties |-> << >>]

\* The sub-schemas put under a composition keyword or then/else at title:
\* one that knows the property a, and one that takes every index, through
\* the items of a schema in its own oneOf.
Subschemas(title) ==
    { [JsonSchemaDefault(title) EXCEPT
          !.properties = [k \in {<<"a">>} |->
                             JsonSchemaDefault(title \o <<"properties", "a">>)]],
      [JsonSchemaDefault(title) EXCEPT
          !.one_of =
              <<[JsonSchemaDefault(title \o <<"oneOf", "0">>) EXCEPT
                    !.items = <<SchemaOrBoolSchema(JsonSchemaDefault(
                                    title \o <<"oneOf", "0", "items">>))>>]>>] }

IndexName == <<"0", "1", "2", "3">>

\* The lists of 0..n sub-schemas of a composition keyword.
RECURSIVE SubschemaLists(_, _)
SubschemaLists(keyword, n) ==
    IF n = 0 THEN {<< >>}
    ELSE LET shorter == SubschemaLists(keyword, n - 1)
         IN  shorter \cup
             {Append(list, sub) :
                 list \in {l \in shorter : Len(l) = n - 1},
                 sub \in Subschemas(<<keyword, IndexName[n]>>)}

Keywords ==
    {"properties", "prefixItems", "items", "allOf", "anyOf", "oneOf", "then",
     "else", "additionalProperties"}

\* The values a keyword that is present compiles to.
KeywordValues(keyword) ==
    CASE keyword = "properties" ->
             {[k \in {key} |-> JsonSchemaDefault(<<"properties">> \o key)] :
                 key \in {<<"a">>, <<"0">>}}
      [] keyword = "prefixItems" -> {<<JsonSchemaDefault(<<"prefixItems", "0">>)>>}
      [] keyword \in {"items", "additionalProperties"} ->
             {<<SchemaOrBoolBool>>,
              <<SchemaOrBoolSchema(JsonSchemaDefault(<<keyword>>))>>}
      [] keyword \in {"allOf", "anyOf", "oneOf"} ->
             SubschemaLists(keyword, MaxSubschemas) \ {<< >>}
      [] keyword \in {"then", "else"} ->
             {<<sub>> : sub \in Subschemas(<<keyword>>)}

\* The compiled schemas with the keywords ks.
SchemasWith(ks) ==
    LET values(keyword) ==
            IF keyword \in ks THEN KeywordValues(keyword) ELSE {<< >>}
    IN  {[title |-> << >>, properties |-> properties,
          prefix_items |-> prefix_items, items |-> items, all_of |-> all_of,
          any_of |-> any_of, one_of |-> one_of, then_schema |-> then_schema,
          else_schema |-> else_schema,
          additional_properties |-> additional_properties] :
            properties \in values("properties"),
            prefix_items \in values("prefixItems"),
            items \in values("items"),
            all_of \in values("allOf"),
            any_of \in values("anyOf"),
            one_of \in values("oneOf"),
            then_schema \in values("then"),
            else_schema \in values("else"),
            additional_properties \in values("additionalProperties")}

\* The sets of up to MaxKeywords keywords.
KeywordSets == {ks \in SUBSET Keywords : Cardinality(ks) <= MaxKeywords}

\* Path segments, character by character.
Segments == {<<"a">>, <<"b">>, <<"0">>, <<"1">>, <<"+", "0">>}

DigitValue ==
    ("0" :> 0) @@ ("1" :> 1) @@ ("2" :> 2) @@ ("3" :> 3) @@ ("4" :> 4)
    @@ ("5" :> 5) @@ ("6" :> 6) @@ ("7" :> 7) @@ ("8" :> 8) @@ ("9" :> 9)

\* seg.parse::<usize>(): an optional '+' and one or more decimal digits; << >>
\* for Err.  (The segments are too short to overflow.)
ParseUsize(seg) ==
    LET digits == IF seg # << >> /\ Head(seg) = "+" THEN Tail(seg) ELSE seg
        value[i \in 0..Len(digits)] ==
            IF i = 0 THEN 0 ELSE 10 * value[i - 1] + DigitValue[digits[i]]
    IN  IF digits = << >> \/ \E i \in DOMAIN digits : digits[i] \notin DOMAIN DigitValue
        THEN << >>
        ELSE <<value[Len(digits)]>>

\* A resolution that walks oneOf before anyOf before allOf.
OneOfFirst(s) == s.one_of \o s.any_of \o s.all_of

\* resolve_path_segment, lines 232-236: all_of, chained with any_of, chained
\* with one_of.
Composition(s) == s.all_of \o s.any_of \o s.one_of

\* JsonSchema::resolve_path_segment, lines 213-263: << >> for None.
RECURSIVE ResolvePathSegment(_, _)
ResolvePathSegment(s, seg) ==
    LET idx == ParseUsize(seg)
        first[i \in 0..Len(Composition(s))] ==
            IF i = Len(Composition(s)) THEN << >>
            ELSE LET result == ResolvePathSegment(Composition(s)[i + 1], seg)
                 IN  IF result # << >> THEN result ELSE first[i + 1]
        then_result == IF s.then_schema = << >> THEN << >>
                       ELSE ResolvePathSegment(s.then_schema[1], seg)
        else_result == IF s.else_schema = << >> THEN << >>
                       ELSE ResolvePathSegment(s.else_schema[1], seg)
    IN  IF seg \in DOMAIN s.properties THEN <<s.properties[seg]>>
        ELSE IF idx # << >> /\ idx[1] < Len(s.prefix_items)
        THEN <<s.prefix_items[idx[1] + 1]>>
        ELSE IF idx # << >> /\ s.items # << >> /\ AsSchema(s.items[1]) # << >>
        THEN AsSchema(s.items[1])
        ELSE IF first[0] # << >> THEN first[0]
        ELSE IF then_result # << >> THEN then_result
        ELSE IF else_result # << >> THEN else_result
        ELSE IF s.additional_properties # << >>
                /\ AsSchema(s.additional_properties[1]) # << >>
        THEN AsSchema(s.additional_properties[1])
        ELSE << >>

\* A compiled schema, not yet asked.
InitResolve ==
    /\ Constructed
    /\ \E ks \in KeywordSets : schema \in SchemasWith(ks)
    /\ resolved = << >>
    /\ tree = << >>
    /\ definition = << >>
    /\ raw = << >>

\* schema.resolve_path_segment(seg)
ResolveCall(seg) ==
    /\ resolved' = <<[seg |-> seg, result |-> ResolvePathSegment(schema, seg)]>>
    /\ UNCHANGED <<documents, associations, cache, debounce_versions, handlers,
                   Clock, client_version, change_publishes, bump_times,
                   fetch_count, fetch_failed, document, input_edit, poisoned,
                   Params, schema, tree, definition, raw>>

NextResolve == \E seg \in Segments : ResolveCall(seg)

SpecResolve == InitResolve /\ [][NextResolve]_vars

\* --------------------------------------------------------- go to definition

\* The JSON values of a syntax tree: strings and numbers by their characters,
\* objects by their pairs [key, value], arrays by their items.
TreeString(chars) ==
    [kind |-> "string", chars |-> chars, pairs |-> << >>, items |-> << >>]
TreeNumber(chars) ==
    [kind |-> "number", chars |-> chars, pairs |-> << >>, items |-> << >>]
TreeObject(pairs) ==
    [kind |-> "object", chars |-> << >>, pairs |-> pairs, items |-> << >>]
TreeArray(items) ==
    [kind |-> "array", chars |-> << >>, pairs |-> << >>, items |-> items]

\* The source text of a value, compact, character by character (the
\* characters used need no escape).
RECURSIVE SourceOf(_)
SourceOf(v) ==
    LET pair(i) == <<"\"">> \o v.pairs[i].key \o <<"\"", ":">>
                   \o SourceOf(v.pairs[i].value)
        pairs[i \in 0..Len(v.pairs)] ==
            IF i = 0 THEN << >>
            ELSE pairs[i - 1] \o (IF i > 1 THEN <<",">> ELSE << >>) \o pair(i)
        items[i \in 0..Len(v.items)] ==
            IF i = 0 THEN << >>
            ELSE items[i - 1] \o (IF i > 1 THEN <<",">> ELSE << >>)
                 \o SourceOf(v.items[i])
    IN  CASE v.kind = "string" -> <<"\"">> \o v.chars \o <<"\"">>
          [] v.kind = "number" -> v.chars
          [] v.kind = "object" -> <<"{">> \o pairs[Len(v.pairs)] \o <<"}">>
          [] v.kind = "array" -> <<"[">> \o items[Len(v.items)] \o <<"]">>

PairName == <<"pair0", "pair1", "pair2", "pair3">>
ItemName == <<"item0", "item1", "item2", "item3">>

\* The named nodes of the tree of a value whose source starts at byte start:
\* each with its path from the root value, its kind, its byte span and, for
\* a string or its content, the characters.
RECURSIVE Nodes(_, _, _)
Nodes(v, start, path) ==
    LET node(p, kind, from, to, chars) ==
            [path |-> p, kind |-> kind, start_byte |-> from, end_byte |-> to,
             chars |-> chars]
        width(i) == Len(v.pairs[i].key) + 3 + Len(SourceOf(v.pairs[i].value))
        pair_start[i \in DOMAIN v.pairs] ==
            IF i = 1 THEN start + 1 ELSE pair_start[i - 1] + width(i - 1) + 1
        item_start[i \in DOMAIN v.items] ==
            IF i = 1 THEN start + 1
            ELSE item_start[i - 1] + Len(SourceOf(v.items[i - 1])) + 1
    IN  {node(path, v.kind, start, start + Len(SourceOf(v)), v.chars)}
        \cup (IF v.kind = "string" /\ v.chars # << >>
              THEN {node(path \o <<"content">>, "string_content", start + 1,
                         start + 1 + Len(v.chars), v.chars)}
              ELSE {})
        \cup UNION {
               {node(path \o <<PairName[i]>>, "pair", pair_start[i],
                     pair_start[i] + width(i), << >>)}
               \cup Nodes(TreeString(v.pairs[i].key), pair_start[i],
                          path \o <<PairName[i], "key">>)
               \cup Nodes(v.pairs[i].value,
                          pair_start[i] + Len(v.pairs[i].key) + 3,
                          path \o <<PairName[i], "value">>) :
               i \in DOMAIN v.pairs}
        \cup UNION {Nodes(v.items[i], item_start[i], path \o <<ItemName[i]>>) :
                       i \in DOMAIN v.items}

\* tree::node_at_offset: the smallest node over the byte at offset.
NodeAtOffset(nodes, offset) ==
    LET over == {n \in nodes : n.start_byte <= offset /\ offset < n.end_byte}
    IN  IF over = {} THEN << >>
        ELSE <<CHOOSE n \in over : \A m \in over : Len(m.path) <= Len(n.path)>>

\* Node::parent: none above the root value but the document node.
Parent(nodes, n) ==
    IF n.path = << >> THEN << >>
    ELSE <<CHOOSE p \in nodes : p.path = SubSeq(n.path, 1, Len(n.path) - 1)>>

\* pair.child_by_field_name("key")
KeyOf(nodes, pair) == CHOOSE k \in nodes : k.path = pair.path \o <<"key">>

\* The characters of $ref values, and the values of up to n of them.
RefAlphabet == {"#", "/", "a", "0", "~", "1"}

RECURSIVE RefValuesOf(_)
RefValuesOf(n) ==
    IF n = 0 THEN {<< >>}
    ELSE LET shorter == RefValuesOf(n - 1)
         IN  shorter \cup {Append(chars, c) : chars \in shorter, c \in RefAlphabet}

RefKey == <<"$", "r", "e", "f">>

\* The documents: an object or an array at the root, and in it a pair with
\* the key "$ref" or another key and a string value.
Trees(key, ref) ==
    LET seven == TreeNumber(<<"7">>)
    IN  { TreeObject(<<[key |-> <<"a">>, value |-> TreeArray(<<seven>>)],
                       [key |-> <<"/">>, value |-> seven],
                       [key |-> key, value |-> TreeString(ref)]>>),
          TreeArray(<<seven,
                      TreeObject(<<[key |-> key, value |-> TreeString(ref)]>>),
                      TreeString(<<"#">>)>>) }

\* str::strip_prefix(char): << >> for None.
StripPrefix(chars, c) ==
    IF chars # << >> /\ Head(chars) = c THEN <<Tail(chars)>> ELSE << >>

\* str::split(char)
RECURSIVE Split(_, _)
Split(chars, sep) ==
    LET at == {i \in DOMAIN chars : chars[i] = sep}
    IN  IF at = {} THEN <<chars>>
        ELSE LET k == CHOOSE i \in at : \A j \in at : i <= j
             IN  <<SubSeq(chars, 1, k - 1)>>
                 \o Split(SubSeq(chars, k + 1, Len(chars)), sep)

\* str::replace of the two characters a b by the character to.
RECURSIVE Replace(_, _, _, _)
Replace(chars, a, b, to) ==
    IF Len(chars) < 2 THEN chars
    ELSE IF chars[1] = a /\ chars[2] = b
         THEN <<to>> \o Replace(SubSeq(chars, 3, Len(chars)), a, b, to)
         ELSE <<chars[1]>> \o Replace(Tail(chars), a, b, to)

\* resolve_pointer, lines 197-238: the path of the node the pointer leads
\* to, << >> for None.
ResolvePointer(v, pointer) ==
    LET path == IF StripPrefix(pointer, "/") # << >>
                THEN StripPrefix(pointer, "/")[1] ELSE pointer
        segments == Split(path, "/")
        step(current, decoded) ==
            CASE current.value.kind = "object" ->
                     LET found == {k \in DOMAIN current.value.pairs :
                                      current.value.pairs[k].key = decoded}
                     IN  IF found = {} THEN << >>
                         ELSE LET k == CHOOSE i \in found : \A j \in found : i <= j
                              IN  <<[value |-> current.value.pairs[k].value,
                                     path |-> current.path \o <<PairName[k], "value">>]>>
              [] current.value.kind = "array" ->
                     LET idx == ParseUsize(decoded)
                     IN  IF idx = << >> \/ idx[1] >= Len(current.value.items)
                         THEN << >>
                         ELSE <<[value |-> current.value.items[idx[1] + 1],
                                 path |-> current.path \o <<ItemName[idx[1] + 1]>>]>>
              [] OTHER -> << >>
        current[i \in 0..Len(segments)] ==
            IF i = 0 THEN <<[value |-> v, path |-> << >>]>>
            ELSE IF current[i - 1] = << >> THEN << >>
            ELSE step(current[i - 1][1],
                      Replace(Replace(segments[i], "~", "1", "/"), "~", "0", "~"))
    IN  IF path = << >> THEN <<<< >>>>
        ELSE IF current[Len(segments)] = << >> THEN << >>
        ELSE <<current[Len(segments)][1].path>>

\* Document::range_of, lines 240-242, over LineIndex::range_of, lines 137-142.
RangeOf(d, start, end) ==
    [start |-> PositionOf(d.line_index, d.text, start),
     end |-> PositionOf(d.line_index, d.text, end)]

\* find_definition, lines 18-54: << >> for None.
FindDefinition(d, v, offset) ==
    LET nodes == Nodes(v, 0, << >>)
        at == NodeAtOffset(nodes, offset)
        string == IF at = << >> THEN << >>
                  ELSE IF at[1].kind = "string_content" THEN Parent(nodes, at[1])
                  ELSE at
        pair == IF string = << >> \/ string[1].kind # "string" THEN << >>
                ELSE Parent(nodes, string[1])
        fragment == StripPrefix(string[1].chars, "#")
        target == ResolvePointer(v, fragment[1])
        node == CHOOSE n \in nodes : n.path = target[1]
    IN  IF pair = << >> \/ pair[1].kind # "pair" THEN << >>
        ELSE IF KeyOf(nodes, pair[1]).chars # RefKey THEN << >>
        ELSE IF fragment = << >> THEN << >>
        ELSE IF target = << >> THEN << >>
        ELSE <<[uri |-> "file:///placeholder",
                range |-> RangeOf(d, node.start_byte, node.end_byte)]>>

\* A document of the store, open, with its tree.
InitDefinition ==
    /\ Quiet
    /\ \E uri \in DocURIs, key \in {RefKey, <<"n">>},
          ref \in RefValuesOf(MaxRefLen) :
          \E v \in Trees(key, ref) :
             /\ documents = WithDocument([u \in {} |-> None], uri, "plain", 1)
             /\ document = <<DocumentNew(SourceOf(v), 1)>>
             /\ tree = <<v>>
    /\ schema = << >>
    /\ resolved = << >>
    /\ definition = << >>
    /\ raw = << >>

\* The positions asked about: where a string content or a number starts.
Cursors ==
    {[line |-> 0, character |-> n.start_byte] :
        n \in {m \in Nodes(tree[1], 0, << >>) :
                  m.kind \in {"string_content", "number"}}}

\* goto_definition, lines 500-521.
GotoDefinition(uri, position) ==
    /\ Free("state")
    /\ definition' =
          <<[uri |-> uri, position |-> position,
             response |->
                 IF uri \notin DOMAIN documents THEN << >>
                 ELSE LET d == document[1]
                          found == FindDefinition(
                                       d, tree[1],
                                       OffsetOf(d.line_index, d.text, position))
                      IN  IF found = << >> THEN << >>
                          ELSE <<[found[1] EXCEPT !.uri = uri]>>]>>
    /\ UNCHANGED <<documents, associations, cache, debounce_versions, handlers,
                   Clock, client_version, change_publishes, bump_times,
                   fetch_count, fetch_failed, document, input_edit, poisoned,
                   Params, schema, resolved, tree, raw>>

NextDefinition ==
    \E uri \in DocURIs, position \in Cursors : GotoDefinition(uri, position)

SpecDefinition == InitDefinition /\ [][NextDefinition]_vars

\* ------------------------------------------------------------------ claims

ValidationOps == {"did_open", "did_save", "did_change"}

\* The awaits a handler future is suspended at.
SuspendedAt == {"dv_sleep", "rs_fetch", "vp_publish", "dc_publish", "ec_apply_edit"}

\* The handler a step starts, when it is suspended after the step.
Started ==
    IF BagCardinality(handlers') > BagCardinality(handlers) THEN Arrived ELSE {}

\* The handlers in flight other than one copy of rec.
Others(bag, rec) == BagToSet(bag (-) SetToBag({rec}))

\* C1: once a newer didChange bumped the counter of a URI, an earlier
\* debounced validation of that URI never calls publish_diagnostics: every
\* step in which a debounced validation reaches the publish finds the counter
\* still at the value the handler holds.
C1_SupersededNeverPublishes ==
    [][\A rec \in Arrived :
          (rec.pc = "vp_publish" /\ rec.op = "did_change")
             => ~Superseded(debounce_versions'[rec.uri], rec.version)]_vars

\* C2: among the validations of a URI, the one that completes last publishes
\* diagnostics computed from the text the last edit left: a validation that
\* reaches its publish of an open document while no other validation of the
\* URI is still sleeping or fetching publishes the syntax diagnostics of the
\* text the document has then, and a schema part computed from that text.
C2_LastValidationUsesLastText ==
    [][\A rec \in Arrived :
          (/\ rec.pc = "vp_publish"
           /\ rec.uri \in DOMAIN documents'
           /\ \A other \in Others(handlers', rec) :
                 ~(/\ other.uri = rec.uri
                   /\ other.op \in ValidationOps
                   /\ other.pc \in {"dv_sleep", "rs_fetch"}))
             => /\ SyntaxDiagnostics(rec.diags.syntax)
                   = SyntaxDiagnostics(documents'[rec.uri].text)
                /\ rec.diags.schema \in {None, documents'[rec.uri].text}]_vars

\* The edits of a URI so far were all applied to the open document.
AppliedEdits(u) ==
    /\ bump_times[u] # << >>
    /\ \A i \in DOMAIN bump_times[u] : bump_times[u][i].applied

\* Time between edit i and edit i + 1 of a URI.
Gap(u, i) == bump_times[u][i + 1].time - bump_times[u][i].time

\* No validation of the URI is still sleeping or fetching.
Settled(u) ==
    \A rec \in InFlight : rec.uri = u => rec.pc \notin {"dv_sleep", "rs_fetch"}

\* The edits of a URI so far came with every gap shorter than DEBOUNCE_MS.
Burst(u) ==
    /\ AppliedEdits(u)
    /\ \A i \in 1..(Len(bump_times[u]) - 1) : Gap(u, i) < DEBOUNCE_MS

\* C3: N didChange events of an open document with every gap shorter than
\* DEBOUNCE_MS cause exactly one publish: none but the handler of the N-th
\* edit ever publishes, and once the validations have run (which takes
\* DEBOUNCE_MS of quiescence) that handler has published once, diagnostics
\* computed from the text after the N-th edit.
C3_DebounceCoalescing ==
    \A u \in DocURIs :
        Burst(u) =>
            /\ Len(change_publishes[u]) <= 1
            /\ \A k \in DOMAIN change_publishes[u] :
                  change_publishes[u][k].version = Len(bump_times[u])
            /\ Settled(u) =>
                  change_publishes[u] =
                      <<[version |-> Len(bump_times[u]), fresh |-> TRUE]>>

\* Two edits 25 ms apart, then quiescence: the second handler alone published.
C3_Witness ==
    \E u \in DocURIs :
        /\ Burst(u)
        /\ Len(bump_times[u]) = 2
        /\ Gap(u, 1) > 0
        /\ handlers = EmptyBag
        /\ change_publishes[u] = <<[version |-> 2, fresh |-> TRUE]>>

\* C4 as stated: when the last gap of the edits of an open document is at
\* least DEBOUNCE_MS, exactly one validation is published, and it observes
\* the text after the last edit.
C4_ExactlyOnePublished ==
    \A u \in DocURIs :
        (/\ AppliedEdits(u)
         /\ Len(bump_times[u]) >= 2
         /\ Gap(u, Len(bump_times[u]) - 1) >= DEBOUNCE_MS
         /\ Settled(u))
        => change_publishes[u] =
               <<[version |-> Len(bump_times[u]), fresh |-> TRUE]>>

\* C4, amended: of the edits of an open document, the validation of the last
\* one is published exactly once after DEBOUNCE_MS of quiescence and observes
\* the text after that edit; the validation of an earlier edit is published
\* at most once, and only when the gap to the next edit is at least
\* DEBOUNCE_MS.
C4_DebouncePublishes ==
    \A u \in DocURIs :
        AppliedEdits(u) =>
            /\ \A k \in DOMAIN change_publishes[u] :
                  LET p == change_publishes[u][k]
                  IN  /\ p.version < Len(bump_times[u])
                         => Gap(u, p.version) >= DEBOUNCE_MS
                      /\ \A j \in DOMAIN change_publishes[u] :
                            j # k => change_publishes[u][j].version # p.version
            /\ Settled(u) =>
                  \E k \in DOMAIN change_publishes[u] :
                      change_publishes[u][k] =
                          [version |-> Len(bump_times[u]), fresh |-> TRUE]

\* Two edits DEBOUNCE_MS or more apart: both validations were published.
C4_Witness ==
    \E u \in DocURIs :
        /\ AppliedEdits(u)
        /\ Len(bump_times[u]) = 2
        /\ Gap(u, 1) >= DEBOUNCE_MS
        /\ handlers = EmptyBag
        /\ Len(change_publishes[u]) = 2

\* C5: fetch_schema is invoked at most once per schema URI as long as its
\* fetches succeed: once the fetches of a URI have returned, none of them
\* failed, there was one at most.
C5_FetchedOnce ==
    \A s \in SchemaURIs :
        (/\ fetch_failed[s] = 0
         /\ \A rec \in InFlight : ~(rec.pc = "rs_fetch" /\ rec.lookup = s))
        => fetch_count[s] <= 1

\* C6: a handler suspended at an await (the debounce sleep, the fetch on the
\* blocking worker, a publish of diagnostics, client.apply_edit) holds none
\* of the three locks, and while a fetch runs the state lock is free.
C6_NoLockHeldAcrossAwait ==
    /\ \A rec \in InFlight : rec.pc \in SuspendedAt => rec.holds = {}
    /\ (\E rec \in InFlight : rec.pc = "rs_fetch") => Free("state")

\* A fetch runs while another validation, which took the state and
\* regex_cache locks to validate against its schema, awaits its publish.
C6_Witness ==
    \E fetching, publishing \in InFlight :
        /\ fetching.pc = "rs_fetch"
        /\ publishing.pc = "vp_publish"
        /\ publishing.diags.schema # None

\* C7: a validation of a document whose root names the schema U inline
\* resolves its schema through U, whatever the associations select: it
\* fetches no other URI and validates against no other schema.
C7_InlineSchemaPreferred ==
    \A rec \in InFlight :
        (/\ rec.op \in ValidationOps
         /\ rec.diags.syntax # None
         /\ ExtractSchemaProperty(rec.diags.syntax) # None)
        => /\ rec.pc = "rs_fetch" => rec.lookup = ExtractSchemaProperty(rec.diags.syntax)
           /\ rec.lookup \in {None, ExtractSchemaProperty(rec.diags.syntax)}
           /\ rec.schema \in {None, ExtractSchemaProperty(rec.diags.syntax)}

\* The associations select V for the document, its text names U, and a
\* validation of that text validated against U while another fetches U.
C7_Witness ==
    \E fetching, publishing \in InFlight :
        /\ MatchAssociation(associations, fetching.uri) = "V"
        /\ fetching.op \in ValidationOps
        /\ fetching.pc = "rs_fetch"
        /\ ExtractSchemaProperty(fetching.diags.syntax) = "U"
        /\ fetching.lookup = "U"
        /\ publishing.uri = fetching.uri
        /\ publishing.pc = "vp_publish"
        /\ ExtractSchemaProperty(publishing.diags.syntax) = "U"
        /\ publishing.schema = "U"

\* C8: a failed fetch is not cached and is retried: the step in which a fetch
\* fails leaves the schema cache as it was and hands its request no schema;
\* afterwards a lookup of the URI yields NeedsFetch unless another fetch of it
\* succeeded, and a validation that starts on a document naming the URI
\* reaches its publish without a fetch only when the URI is cached.
C8_FailedFetchNotCached ==
    [][\A s \in SchemaURIs :
          /\ fetch_failed'[s] # fetch_failed[s]
                => /\ cache' = cache
                   /\ \A rec \in Arrived :
                         rec.schema = None /\ rec.diags.schema = None
          /\ (fetch_failed'[s] > 0 /\ s \notin cache')
                => /\ \A u \in DocURIs :
                         SchemaForDocument(u, s)' = [tag |-> "NeedsFetch", uri |-> s]
                   /\ \A rec \in Started :
                         (/\ rec.op \in {"did_open", "did_save"}
                          /\ ExtractSchemaProperty(rec.diags.syntax) = s)
                         => /\ rec.pc = "rs_fetch"
                            /\ rec.lookup = s]_vars

\* A fetch of U failed, U is not cached, and the one request in flight
\* fetches U again.
C8_Witness ==
    /\ fetch_failed["U"] = 1
    /\ fetch_count["U"] = 2
    /\ "U" \notin cache
    /\ BagCardinality(handlers) = 1
    /\ \E rec \in InFlight : rec.pc = "rs_fetch" /\ rec.lookup = "U"

\* C9: the schema cache only grows: no step removes an entry.
C9_CacheOnlyGrows == [][cache \subseteq cache']_vars

\* V was fetched for the document and cached; since then the associations
\* were replaced by none and the document was closed.
C9_Witness ==
    /\ "V" \in cache
    /\ associations = << >>
    /\ documents = [u \in {} |-> None]
    /\ debounce_versions # [u \in DocURIs |-> 0]

C12_PositionRoundTrip ==
    document # << >> =>
        LET d == document[1]
        IN  \A b \in 0..Len(d.text) :
                IsCharBoundary(d.text, b) =>
                    LET pos == PositionOf(d.line_index, d.text, b)
                    IN  /\ pos.line # Panic
                        /\ OffsetOf(d.line_index, d.text, pos) = b

\* An edit left a text of U+1F600 and a newline: the offset after the
\* character of two UTF-16 code units is a line's column 2, the offset at the
\* end of the text is directly after the newline.
C12_Witness ==
    /\ document # << >>
    /\ input_edit # << >>
    /\ document[1].text = <<"F0", "9F", "98", "80", "\n">>
    /\ PositionOf(document[1].line_index, document[1].text, 4)
          = [line |-> 0, character |-> 2]
    /\ PositionOf(document[1].line_index, document[1].text, 5)
          = [line |-> 1, character |-> 0]

\* C13: after any sequence of edits the line starts LineIndex::update left
\* equal those LineIndex::new builds from the text: the first is 0, each
\* further one lies just past a newline, there is one per newline, and they
\* increase strictly.
C13_LineIndexMatchesFresh ==
    document # << >> =>
        LET d == document[1]
            starts == d.line_index
        IN  /\ starts = LineIndexNew(d.text)
            /\ starts[1] = 0
            /\ \A i \in 2..Len(starts) :
                  /\ starts[i] \in 1..Len(d.text)
                  /\ d.text[starts[i]] = "\n"
                  /\ starts[i - 1] < starts[i]
            /\ Len(starts) = 1 + Cardinality({i \in DOMAIN d.text : d.text[i] = "\n"})

\* The second edit of a document changed the length of the text, brought a
\* newline of its own, removed one, and left a line start behind it to shift.
C13_Witness ==
    /\ document # << >>
    /\ input_edit # << >>
    /\ document[1].version = 3
    /\ LET e == input_edit[1]
           starts == document[1].line_index
       IN  /\ e.new_end_byte # e.old_end_byte
           /\ e.old_end_position.row > e.start_position.row
           /\ \E i \in DOMAIN starts :
                 e.start_byte < starts[i] /\ starts[i] <= e.new_end_byte
           /\ \E i \in DOMAIN starts : starts[i] > e.new_end_byte

\* The UTF-16 code units of line `line` of the document, its newline included.
LineUnits(d, line) ==
    LET line_start == d.line_index[line + 1]
        line_end == IF line + 1 < Len(d.line_index) THEN d.line_index[line + 2]
                    ELSE Len(d.text)
    IN  Utf16Units(SubSeq(d.text, line_start + 1, line_end))

\* A position whose line is past the last line, or whose character is past
\* the end of its line.
OutOfRange(d, pos) ==
    \/ pos.line >= Len(d.line_index)
    \/ pos.line < Len(d.line_index) /\ pos.character > LineUnits(d, pos.line)

\* C14: offset_of never returns more than the length of the text, and it
\* returns the length of the text for every position out of range, be it the
\* line or the character.
C14_OutOfRangeClampsToLen ==
    document # << >> =>
        LET d == document[1]
        IN  \A pos \in Positions :
                /\ OffsetOf(d.line_index, d.text, pos) <= Len(d.text)
                /\ OutOfRange(d, pos)
                      => OffsetOf(d.line_index, d.text, pos) = Len(d.text)

\* The document one content change leaves, for the claims: without its text
\* when the change panics or the change before it did.
Changed(d, change, version) ==
    IF "text" \notin DOMAIN d THEN d
    ELSE IF change.range = << >> THEN ReplaceFull(d, change.text, version)
    ELSE LET applied == ApplyEdit(d, change.range[1], change.text, version)
         IN  IF applied.panics THEN [panics |-> TRUE] ELSE applied.document

\* C15: didChange applies the content changes of the notification in order,
\* each range resolved against the text the change before it left (a change
\* without range replaces the whole text), inside one critical section of the
\* state lock, and schedules the debounced validation only after the last
\* one: the step that bumps the counter of the open document finds the state
\* lock free, leaves the document the changes yield one after the other,
\* leaves no handler holding the state lock, and starts one handler, at the
\* debounce sleep, which has read nothing of the document yet.
C15_ChangesAppliedInOrder ==
    [][\A u \in DocURIs :
          (debounce_versions'[u] # debounce_versions[u] /\ u \in DOMAIN documents)
          => /\ Free("state")
             /\ content_changes' # << >>
             /\ LET changes == content_changes'
                    version == documents'[u].version
                    d[i \in 0..Len(changes)] ==
                        IF i = 0 THEN document[1]
                        ELSE Changed(d[i - 1], changes[i], version)
                IN  /\ document' = <<d[Len(changes)]>>
                    /\ documents'[u].text = Class(d[Len(changes)].text)
             /\ \A rec \in BagToSet(handlers') : "state" \notin rec.holds
             /\ \E rec \in Started :
                   /\ rec.op = "did_change"
                   /\ rec.uri = u
                   /\ rec.pc = "dv_sleep"
                   /\ rec.version = debounce_versions'[u]
                   /\ rec.diags = NoDiags]_vars

\* A notification of two changes on the text "xx": a newline inserted at its
\* start, then the range from there to line 1 removed, which is the newline
\* alone in the text the first change left; its validation is asleep.
C15_Witness ==
    /\ content_changes =
          <<[range |-> <<[start |-> [line |-> 0, character |-> 0],
                          end |-> [line |-> 0, character |-> 0]]>>,
             text |-> <<"\n">>],
            [range |-> <<[start |-> [line |-> 0, character |-> 0],
                          end |-> [line |-> 1, character |-> 0]]>>,
             text |-> << >>]>>
    /\ document # << >>
    /\ document[1].text = <<"x", "x">>
    /\ document[1].version = 2
    /\ \E rec \in InFlight : rec.op = "did_change" /\ rec.pc = "dv_sleep"

\* C16: didOpen and didSave validate immediately: the step that starts one
\* runs validate_and_publish up to its first await (the diagnostics are
\* captured, the handler awaits the fetch or the publish, never the debounce
\* sleep), and neither that step nor a later step of the handler reads or
\* bumps a debounce counter; the debounced validations pending at the step
\* stay pending, superseded or not as they were.
C16_OpenAndSaveValidateImmediately ==
    [][/\ \A rec \in Started :
             rec.op \in {"did_open", "did_save"}
             => /\ rec.pc \in {"rs_fetch", "vp_publish"}
                /\ rec.diags.syntax = documents'[rec.uri].text
                /\ \A pending \in InFlight :
                      pending.pc = "dv_sleep"
                      => /\ CopiesIn(pending, handlers') = CopiesIn(pending, handlers)
                         /\ Superseded(debounce_versions'[pending.uri], pending.version)
                               = Superseded(debounce_versions[pending.uri], pending.version)
       /\ \A rec \in Arrived :
             rec.op \in {"did_open", "did_save"}
             => /\ rec.pc # "dv_sleep"
                /\ rec.version = 0
                /\ debounce_versions' = debounce_versions]_vars

\* A didSave awaits its publish while the debounced validation of an edit of
\* the same document, not superseded, is still asleep.
C16_Witness ==
    \E saving, pending \in InFlight :
        /\ saving.op = "did_save"
        /\ saving.pc = "vp_publish"
        /\ pending.op = "did_change"
        /\ pending.uri = saving.uri
        /\ pending.pc = "dv_sleep"
        /\ ~Superseded(debounce_versions[pending.uri], pending.version)
        /\ saving.diags.syntax = documents[saving.uri].text

\* C17: after a didChangeConfiguration whose payload has an array at
\* json.schemas the association list is, in payload order, the entries of
\* the array that carry a string url or uri and a fileMatch array, each with
\* that url or uri and the patterns of its fileMatch; a payload without the
\* array leaves the list as it was.
C17_ConfigurationReplacesAssociations ==
    [][LET s == settings'[1]
           carrying == SelectSeq(s.entries,
                          LAMBDA e : /\ e.object
                                     /\ "string" \in {e.url.kind, e.uri.kind}
                                     /\ e.fileMatch.kind = "array")
       IN  IF s.shape = "schemas_array"
           THEN /\ Len(associations') = Len(carrying)
                /\ \A i \in DOMAIN carrying :
                      /\ associations'[i].uri
                            \in {v.str : v \in {w \in {carrying[i].url, carrying[i].uri} :
                                                   w.kind = "string"}}
                      /\ associations'[i].file_match
                            = FileMatch(carrying[i].fileMatch.items)
           ELSE associations' = associations]_vars

\* C18: a definition request on the string value of a "$ref" pair whose
\* value starts with '#' is answered with the requested URI and the range of
\* the node the JSON pointer after the '#' resolves to in the document, and
\* with none when that pointer resolves to nothing; on a "$ref" value without
\* the leading '#' and on a string that is not the value of a "$ref" key it
\* is answered with none.  The pointer is read as JSON Pointer defines it:
\* empty for the root, else '/'-prefixed reference tokens with ~1 and ~0
\* escapes, a member name in an object, a decimal index without leading
\* zeros in an array.
C18_DefinitionOfRef ==
    definition # << >> =>
        LET request == definition[1]
            d == document[1]
            v == tree[1]
            nodes == Nodes(v, 0, << >>)
            offset == OffsetOf(d.line_index, d.text, request.position)
            strings == {n \in nodes : /\ n.kind = "string"
                                      /\ n.start_byte <= offset
                                      /\ offset < n.end_byte}
            ref_value(n) ==
                /\ Len(n.path) >= 2
                /\ n.path[Len(n.path)] = "value"
                /\ \E k \in nodes :
                      /\ k.path = SubSeq(n.path, 1, Len(n.path) - 1) \o <<"key">>
                      /\ k.chars = RefKey
            index(token) ==
                IF \/ token = << >>
                   \/ \E i \in DOMAIN token : token[i] \notin DOMAIN DigitValue
                   \/ Len(token) > 1 /\ token[1] = "0"
                THEN << >> ELSE ParseUsize(token)
            escaped(token) ==
                \A i \in DOMAIN token :
                    token[i] = "~" => i < Len(token) /\ token[i + 1] \in {"0", "1"}
            member(value, path, token) ==
                CASE value.kind = "object" ->
                         LET named == {k \in DOMAIN value.pairs :
                                          value.pairs[k].key
                                             = Replace(Replace(token, "~", "1", "/"),
                                                       "~", "0", "~")}
                         IN  IF named = {} \/ ~escaped(token) THEN << >>
                             ELSE LET k == CHOOSE i \in named : \A j \in named : i <= j
                                  IN  <<[value |-> value.pairs[k].value,
                                         path |-> path \o <<PairName[k], "value">>]>>
                  [] value.kind = "array" ->
                         IF index(token) = << >> \/ index(token)[1] >= Len(value.items)
                         THEN << >>
                         ELSE <<[value |-> value.items[index(token)[1] + 1],
                                 path |-> path \o <<ItemName[index(token)[1] + 1]>>]>>
                  [] OTHER -> << >>
            pointed(pointer) ==
                IF pointer = << >> THEN <<[value |-> v, path |-> << >>]>>
                ELSE IF Head(pointer) # "/" THEN << >>
                ELSE LET tokens == Split(Tail(pointer), "/")
                         at[i \in 0..Len(tokens)] ==
                             IF i = 0 THEN <<[value |-> v, path |-> << >>]>>
                             ELSE IF at[i - 1] = << >> THEN << >>
                             ELSE member(at[i - 1][1].value, at[i - 1][1].path,
                                         tokens[i])
                     IN  at[Len(tokens)]
        IN  \A n \in strings :
                IF ref_value(n) /\ n.chars # << >> /\ Head(n.chars) = "#"
                THEN IF pointed(Tail(n.chars)) = << >>
                     THEN request.response = << >>
                     ELSE \E target \in nodes :
                             /\ target.path = pointed(Tail(n.chars))[1].path
                             /\ request.response =
                                   <<[uri |-> request.uri,
                                      range |-> RangeOf(d, target.start_byte,
                                                        target.end_byte)]>>
                ELSE request.response = << >>

\* C19: resolve_path_segment returns the hit of the first step that hits,
\* in the order properties[seg]; for an integer seg prefixItems[seg], else
\* items when it is a schema; the first recursive hit over allOf, then anyOf,
\* then oneOf, in list order; the recursive hit in then, else in else;
\* additionalProperties when it is a schema; and none when no step hits.
C19_PathSegmentPrecedence ==
    resolved # << >> =>
        LET s == schema
            seg == resolved[1].seg
            i == ParseUsize(seg)
            subs == s.all_of \o s.any_of \o s.one_of
            hitting == {k \in DOMAIN subs : ResolvePathSegment(subs[k], seg) # << >>}
            step == <<
                IF seg \in DOMAIN s.properties THEN <<s.properties[seg]>> ELSE << >>,
                IF i = << >> THEN << >>
                ELSE IF i[1] + 1 \in DOMAIN s.prefix_items
                     THEN <<s.prefix_items[i[1] + 1]>>
                     ELSE IF s.items # << >> /\ s.items[1].is_schema
                          THEN s.items[1].value ELSE << >>,
                IF hitting = {} THEN << >>
                ELSE ResolvePathSegment(
                         subs[CHOOSE k \in hitting : \A j \in hitting : k <= j], seg),
                IF s.then_schema = << >> THEN << >>
                ELSE ResolvePathSegment(s.then_schema[1], seg),
                IF s.else_schema = << >> THEN << >>
                ELSE ResolvePathSegment(s.else_schema[1], seg),
                IF s.additional_properties # << >> /\ s.additional_properties[1].is_schema
                THEN s.additional_properties[1].value ELSE << >> >>
            hits == {n \in DOMAIN step : step[n] # << >>}
        IN  IF hits = {} THEN resolved[1].result = << >>
            ELSE resolved[1].result = step[CHOOSE n \in hits : \A m \in hits : n <= m]

\* Nothing in allOf knows the segment, a schema in anyOf does, and
\* additionalProperties would have taken it too.
C19_Witness ==
    /\ resolved # << >>
    /\ schema.all_of # << >>
    /\ \A k \in DOMAIN schema.all_of :
          ResolvePathSegment(schema.all_of[k], resolved[1].seg) = << >>
    /\ \E k \in DOMAIN schema.any_of :
          resolved[1].result = ResolvePathSegment(schema.any_of[k], resolved[1].seg)
    /\ resolved[1].result # << >>
    /\ schema.additional_properties # << >>
    /\ schema.additional_properties[1].is_schema

\* C20: an apply_edit whose range resolves to start_byte <= old_end_byte
\* leaves the text old[..start_byte] + new_text + old[old_end_byte..] and the
\* version supplied, and hands the parser an InputEdit with new_end_byte =
\* start_byte + len(new_text), the start and old end points measured on the
\* text before the splice, the new end point on the text after it.
C20_ApplyEditSplices ==
    [][(input_edit' # << >> /\ document' # document) =>
          LET e == input_edit'[1]
              before == document[1].text
              after == document'[1].text
          IN  /\ e.start_byte <= e.old_end_byte
              /\ e.old_end_byte <= Len(before)
              /\ \E new_text \in NewTexts :
                    /\ after = SubSeq(before, 1, e.start_byte) \o new_text
                               \o SubSeq(before, e.old_end_byte + 1, Len(before))
                    /\ e.new_end_byte = e.start_byte + Len(new_text)
              /\ document'[1].version = document[1].version + 1
              /\ e.start_position = BytePoint(before, e.start_byte)
              /\ e.old_end_position = BytePoint(before, e.old_end_byte)
              /\ e.new_end_position = BytePoint(after, e.new_end_byte)]_vars

\* An edit replaced a newline and the character before it by a letter and a
\* newline: the old end point lies a row below the start point, the new end
\* point too, at column 0.
C20_Witness ==
    /\ document # << >>
    /\ input_edit # << >>
    /\ LET e == input_edit[1]
       IN  /\ e.start_byte > 0
           /\ e.old_end_byte = e.start_byte + 2
           /\ e.new_end_byte = e.start_byte + 2
           /\ e.old_end_position.row = e.start_position.row + 1
           /\ e.new_end_position = [row |-> e.start_position.row + 1, column |-> 0]
           /\ e.new_end_byte < Len(document[1].text)

\* The handlers a step moves on or ends: those with fewer copies in flight
\* after the step than before it.
Departed == {rec \in InFlight :
                CopiesIn(rec, handlers) > CopiesIn(rec, handlers')}

\* The one handler a step leaves suspended, if it is at one of the awaits pcs
\* and belongs to the same invocation as rec.
ArrivesAt(rec, pcs) ==
    \E next \in Arrived :
        /\ Arrived = {next}
        /\ next.op = rec.op /\ next.uri = rec.uri /\ next.version = rec.version
        /\ next.pc \in pcs

\* C22: validate_and_publish publishes exactly once when the document is open
\* at entry and never otherwise.  The publish is the last await of the
\* handler: a didOpen enters with the document open and goes on to the fetch
\* or the publish; a debounced validation that passes its counter check goes
\* on to the fetch or the publish when the document is open and returns when
\* it is not; a validation that leaves the fetch goes on to the publish,
\* whether the fetch succeeded or failed and whether the document is still
\* open, and after a failure it publishes the syntax diagnostics it captured
\* and nothing else; a validation that leaves the publish returns.
C22_PublishesExactlyOnce ==
    [][/\ \A u \in DocURIs :
             (u \notin DOMAIN documents /\ u \in DOMAIN documents')
             => \E rec \in Started :
                   /\ rec.op = "did_open" /\ rec.uri = u
                   /\ rec.pc \in {"rs_fetch", "vp_publish"}
       /\ \A rec \in Started :
             rec.op = "did_save"
             => rec.uri \in DOMAIN documents /\ rec.pc \in {"rs_fetch", "vp_publish"}
       /\ \A rec \in Departed :
             rec.op \in ValidationOps
             => /\ rec.pc = "dv_sleep"
                   => IF /\ ~Superseded(debounce_versions[rec.uri], rec.version)
                         /\ rec.uri \in DOMAIN documents
                      THEN ArrivesAt(rec, {"rs_fetch", "vp_publish"})
                      ELSE Arrived = {}
                /\ rec.pc = "rs_fetch"
                   => /\ ArrivesAt(rec, {"vp_publish"})
                      /\ \A next \in Arrived :
                            /\ next.diags.syntax = rec.diags.syntax
                            /\ next.schema = None => next.diags.schema = None
                /\ rec.pc = "vp_publish" => Arrived = {}]_vars

\* A validation fetched its schema, the document was closed meanwhile, and
\* the validation awaits its publish of the syntax diagnostics it captured.
C22_Witness ==
    \E rec \in InFlight :
        /\ rec.op \in ValidationOps
        /\ rec.pc = "vp_publish"
        /\ rec.schema # None
        /\ rec.uri \notin DOMAIN documents
        /\ rec.diags.syntax # None
        /\ rec.diags.schema = None

\* C24: every publish of validate_and_publish carries the version of the text
\* its diagnostics were computed from: in the step that computes the schema
\* part of the diagnostics from the document and reaches the publish, the
\* version the handler captured for the publish is the version the document
\* has.
C24_PublishCarriesVersionOfText ==
    [][\A rec \in Arrived :
          (/\ rec.pc = "vp_publish"
           /\ rec.op \in ValidationOps
           /\ rec.diags.schema # None)
             => /\ rec.doc_version = documents'[rec.uri].version
                /\ rec.diags.syntax = documents'[rec.uri].text]_vars

\* C25: while a URI is not open, every publish sent for it carries an empty
\* diagnostics list: a step that leaves the URI without a document and sends
\* a publish for it (the one of did_close, or the one of a validation that
\* was started before the close and leaves its fetch) sends no syntax
\* diagnostics and no schema diagnostics.
C25_ClosedPublishesEmpty ==
    [][\A rec \in Arrived :
          (/\ rec.pc \in {"vp_publish", "dc_publish"}
           /\ rec.uri \notin DOMAIN documents')
             => /\ ~SyntaxDiagnostics(rec.diags.syntax)
                /\ rec.diags.schema = None]_vars

\* The document was closed while a validation of it fetched its schema; the
\* publish of did_close is awaited, and the validation, which got its schema
\* after the close, awaits its publish too.
C25_Witness ==
    \E closing, validating \in InFlight :
        /\ closing.op = "did_close"
        /\ closing.pc = "dc_publish"
        /\ validating.op \in ValidationOps
        /\ validating.uri = closing.uri
        /\ validating.pc = "vp_publish"
        /\ validating.schema # None
        /\ validating.uri \notin DOMAIN documents

\* C27: schema resolution is attempted only for syntactically clean
\* documents with a root value: a validation that captured a text with a
\* syntax diagnostic or without a root value goes from the capture to its
\* publish in one step, which looks no schema up, issues no fetch and leaves
\* the schema cache alone, and it publishes the syntax diagnostics only.
C27_NoSchemaForBrokenDocuments ==
    [][\A rec \in Arrived :
          (/\ rec.op \in ValidationOps
           /\ rec.diags.syntax # None
           /\ \/ SyntaxDiagnostics(rec.diags.syntax)
              \/ ~RootValue(rec.diags.syntax))
             => /\ rec.pc = "vp_publish"
                /\ rec.lookup = None
                /\ rec.schema = None
                /\ rec.diags.schema = None
                /\ rec.diags.syntax = documents'[rec.uri].text
                /\ cache' = cache
                /\ \A other \in InFlight' :
                      other.pc = "rs_fetch" => other \in InFlight]_vars

\* A validation of a document without a root value awaits its publish, no
\* schema resolved, while the associations select for the document a schema
\* that is cached.
C27_Witness ==
    \E rec \in InFlight :
        /\ rec.op \in ValidationOps
        /\ rec.pc = "vp_publish"
        /\ rec.diags.syntax = "empty"
        /\ rec.schema = None
        /\ MatchAssociation(associations, rec.uri) \in cache

\* ------------------------------------------------------------- two documents

\* The URIs of two documents.
URIs == DocURIs \cup {"file:///b.json"}

\* JsonLanguageServer::new, with a debounce counter (absent = 0) for each of
\* the two URIs.
InitUris ==
    /\ documents = [u \in {} |-> None]
    /\ associations = << >>
    /\ cache = {}
    /\ debounce_versions = [u \in URIs |-> 0]
    /\ handlers = EmptyBag
    /\ now = 0
    /\ ticks = 0
    /\ client_version = 0
    /\ change_publishes = [u \in DocURIs |-> << >>]
    /\ bump_times = [u \in DocURIs |-> << >>]
    /\ fetch_count = [s \in SchemaURIs |-> 0]
    /\ fetch_failed = [s \in SchemaURIs |-> 0]
    /\ document = << >>
    /\ input_edit = << >>
    /\ poisoned = FALSE
    /\ content_changes = << >>
    /\ settings = << >>
    /\ schema = << >>
    /\ resolved = << >>
    /\ tree = << >>
    /\ definition = << >>
    /\ raw = << >>

\* The bumps of the counter of the first URI are recorded, each with whether
\* its edit was applied to an open document.
UrisObserved ==
    DocumentIdle /\ RecordBumps /\ UNCHANGED <<fetch_count, change_publishes>>

NextUris ==
    \/ \E uri \in URIs, text \in Texts : DidOpen(uri, text) /\ UrisObserved
    \/ \E uri \in URIs, text \in Texts : DidChange(uri, text) /\ UrisObserved
    \/ \E uri \in URIs : DidSave(uri) /\ UrisObserved
    \/ \E uri \in URIs : DidClose(uri) /\ UrisObserved
    \/ \E payload \in Payloads : DidChangeConfiguration(payload) /\ UrisObserved
    \/ \E rec \in InFlight : DebounceCheck(rec) /\ UrisObserved
    \/ \E rec \in InFlight : FetchSucceeds(rec) /\ UrisObserved
    \/ \E rec \in InFlight : FetchFails(rec) /\ UrisObserved
    \/ \E rec \in InFlight : VpPublish(rec) /\ UrisObserved
    \/ \E rec \in InFlight : DcPublish(rec) /\ UrisObserved

\* The document-sync notifications of two URIs and their validations, in
\* every interleaving.
SpecUris == InitUris /\ [][NextUris]_vars

\* C26: the debounce counters are per URI, monotonic and independent: a step
\* changes at most one counter, by exactly +1, and it is the step of a
\* didChange of that URI, whose handler holds the new value; the steps of
\* didOpen, didSave, didClose and of a configuration change leave every
\* counter as it was; so a debounced validation pending for one URI is
\* superseded after a step only if it was before or the step is a didChange
\* of its own URI.
C26_CountersPerUri ==
    [][/\ \A u \in URIs :
             debounce_versions'[u] # debounce_versions[u]
             => /\ debounce_versions'[u] = debounce_versions[u] + 1
                /\ \A other \in URIs \ {u} :
                      debounce_versions'[other] = debounce_versions[other]
                /\ \E rec \in Started :
                      /\ rec.op = "did_change" /\ rec.uri = u
                      /\ rec.version = debounce_versions'[u]
       /\ \A rec \in Started :
             /\ rec.op = "did_change"
                   => debounce_versions'[rec.uri] = debounce_versions[rec.uri] + 1
             /\ rec.op # "did_change" => debounce_versions' = debounce_versions
       /\ associations' # associations => debounce_versions' = debounce_versions
       /\ \A pending \in InFlight :
             (/\ pending.pc = "dv_sleep"
              /\ ~Superseded(debounce_versions[pending.uri], pending.version)
              /\ Superseded(debounce_versions'[pending.uri], pending.version))
             => \E rec \in Started :
                   rec.op = "did_change" /\ rec.uri = pending.uri]_vars

\* The counter of one URI was bumped twice and the counter of the other URI
\* once, and the debounced validations of the last edit of each are both
\* pending, neither superseded.
C26_Witness ==
    \E a, b \in InFlight :
        /\ a.uri # b.uri
        /\ a.pc = "dv_sleep" /\ b.pc = "dv_sleep"
        /\ debounce_versions[a.uri] = 2 /\ a.version = 2
        /\ debounce_versions[b.uri] = 1 /\ b.version = 1

\* The effect of a didChange of a URI without a document: the step that bumps
\* the counter of such a URI leaves the document store, the associations and
\* the schema cache as they were.
UnopenedChangeOnlyBumps ==
    \A u \in URIs :
        (debounce_versions'[u] # debounce_versions[u] /\ u \notin DOMAIN documents)
        => /\ documents' = documents
           /\ associations' = associations
           /\ cache' = cache
           /\ \A other \in URIs \ {u} :
                 debounce_versions'[other] = debounce_versions[other]

\* C29, as stated: a didChange of a URI that is not open creates no document
\* and changes none, and its debounced validation publishes nothing: a
\* debounced validation that goes on from its counter check to the fetch or
\* the publish belongs to an edit that was applied to an open document.
C29_UnopenedChangePublishesNothing ==
    [][/\ UnopenedChangeOnlyBumps
       /\ \A rec \in Departed :
             (rec.pc = "dv_sleep" /\ rec.uri \in DocURIs /\ Arrived # {})
             => bump_times[rec.uri][rec.version].applied]_vars

\* C29, amended: a didChange of a URI that is not open creates no document
\* and changes none, its only effect on the server state is the bump of the
\* counter of its URI, and its debounced validation publishes nothing when
\* the URI is still not open at the end of the debounce delay.
C29_UnopenedChangePublishesNothingWhileUnopened ==
    [][/\ UnopenedChangeOnlyBumps
       /\ \A rec \in Departed :
             (rec.pc = "dv_sleep" /\ rec.uri \notin DOMAIN documents)
             => Arrived = {}]_vars

\* One document is open; an edit of the other URI, which has none, bumped
\* its counter, and its debounced validation has come and gone: nothing is
\* in flight and the store holds the one document as it was opened.
C29_Witness ==
    /\ client_version = 2
    /\ handlers = EmptyBag
    /\ DOMAIN documents = URIs \ DocURIs
    /\ \A u \in DOMAIN documents : documents[u].version = 1
    /\ \E u \in DocURIs :
          /\ debounce_versions[u] = 1
          /\ bump_times[u] = <<[time |-> 0, applied |-> FALSE]>>

\* C28: apply_edit is total over LSP ranges: for the text of the document
\* and every range the offsets resolve to start_byte <= old_end_byte <=
\* len(text), on character boundaries, and no apply_edit panics, so that the
\* state lock did_change holds is never poisoned.
C28_ApplyEditTotal ==
    /\ ~poisoned
    /\ document # << >> =>
          \A range \in Ranges :
              LET d == document[1]
                  start_byte == OffsetOf(d.line_index, d.text, range.start)
                  old_end_byte == OffsetOf(d.line_index, d.text, range.end)
              IN  /\ start_byte # Panic /\ old_end_byte # Panic
                  /\ start_byte <= old_end_byte
                  /\ old_end_byte <= Len(d.text)
                  /\ IsCharBoundary(d.text, start_byte)
                  /\ IsCharBoundary(d.text, old_end_byte)

\* --------------------------------------------------------- schema compilation

\* serde_json::Value, the kinds a schema and its keywords are told by.  A
\* string is the sequence of its parts, an object the function of its
\* members, an array the sequence of its items.
ValueBool(b) ==
    [kind |-> "bool", bool |-> b, number |-> 0, string |-> << >>,
     object |-> << >>, array |-> << >>]
ValueNumber(n) ==
    [kind |-> "number", bool |-> FALSE, number |-> n, string |-> << >>,
     object |-> << >>, array |-> << >>]
ValueString(s) ==
    [kind |-> "string", bool |-> FALSE, number |-> 0, string |-> s,
     object |-> << >>, array |-> << >>]
ValueObject(map) ==
    [kind |-> "object", bool |-> FALSE, number |-> 0, string |-> << >>,
     object |-> map, array |-> << >>]
ValueArray(arr) ==
    [kind |-> "array", bool |-> FALSE, number |-> 0, string |-> << >>,
     object |-> << >>, array |-> arr]

\* The "$schema" URIs of the drafts and one of no draft.
DraftUris ==
    {<<"http://json-schema.org/", "draft-04", "/schema#">>,
     <<"http://json-schema.org/", "draft-06", "/schema#">>,
     <<"https://json-schema.org/draft/", "2019-09", "/schema">>,
     <<"http://example.com/schema">>}

\* SchemaDraft::from_schema_uri; str::contains, on the parts of the URI.
FromSchemaUri(uri) ==
    LET Contains(pattern) == \E i \in DOMAIN uri : uri[i] = pattern
    IN  IF Contains("draft-04") \/ Contains("draft/04") THEN "Draft4"
        ELSE IF Contains("draft-06") \/ Contains("draft/06") THEN "Draft6"
        ELSE IF Contains("draft-07") \/ Contains("draft/07") THEN "Draft7"
        ELSE IF Contains("2019-09") THEN "Draft2019_09"
        ELSE IF Contains("2020-12") THEN "Draft2020_12"
        ELSE "Draft7"

\* ExclusiveLimit
ExclusiveLimitBool(b) == [tag |-> "Bool", bool |-> b, number |-> 0]
ExclusiveLimitNumber(n) == [tag |-> "Number", bool |-> FALSE, number |-> n]

\* JsonSchema::default(), the fields of draft detection, of the numeric
\* keywords and of the sub-schemas: draft is Draft7 (#[default]), the rest
\* is empty.  Options are << >> or <<x>>.
CompiledDefault ==
    [draft |-> "Draft7", schema_draft |-> << >>,
     minimum |-> << >>, maximum |-> << >>,
     exclusive_minimum |-> << >>, exclusive_maximum |-> << >>,
     multiple_of |-> << >>,
     items |-> << >>, prefix_items |-> << >>, properties |-> << >>,
     all_of |-> << >>, any_of |-> << >>, one_of |-> << >>, not |-> << >>,
     if_schema |-> << >>, then_schema |-> << >>, else_schema |-> << >>,
     definitions |-> << >>, defs |-> << >>]

RECURSIVE FromValue(_)
RECURSIVE ParseSchemaObject(_)

\* JsonSchema::from_value
FromValue(val) ==
    IF val.kind = "bool"
    THEN IF val.bool THEN CompiledDefault
         ELSE [CompiledDefault EXCEPT !.not = <<CompiledDefault>>]
    ELSE IF val.kind = "object" THEN ParseSchemaObject(val.object)
    ELSE CompiledDefault

\* parse_schema_object, with its helpers str_field, schema_array_field,
\* schema_object_field and parse_schema_or_bool.
ParseSchemaObject(map) ==
    LET Is(key, kind) == key \in DOMAIN map /\ map[key].kind = kind
        StrField(key) == IF Is(key, "string") THEN <<map[key].string>> ELSE << >>
        AsF64(key) == IF Is(key, "number") THEN <<map[key].number>> ELSE << >>
        \* lines 350-363: map.get(key).map(..): a bool is Bool, anything
        \* else is Number(v.as_f64().unwrap_or(0.0)).
        Exclusive(key) ==
            IF key \notin DOMAIN map THEN << >>
            ELSE IF map[key].kind = "bool"
                 THEN <<ExclusiveLimitBool(map[key].bool)>>
                 ELSE <<ExclusiveLimitNumber(
                            IF map[key].kind = "number" THEN map[key].number
                            ELSE 0)>>
        Schema(key) ==
            IF key \in DOMAIN map THEN <<FromValue(map[key])>> ELSE << >>
        SchemaOrBool(key) ==
            IF key \notin DOMAIN map THEN << >>
            ELSE IF map[key].kind = "bool" THEN <<SchemaOrBoolBool>>
                 ELSE <<SchemaOrBoolSchema(FromValue(map[key]))>>
        SchemaArrayField(key) ==
            IF Is(key, "array")
            THEN [i \in DOMAIN map[key].array |-> FromValue(map[key].array[i])]
            ELSE << >>
        SchemaObjectField(key) ==
            IF Is(key, "object")
            THEN [k \in DOMAIN map[key].object |-> FromValue(map[key].object[k])]
            ELSE << >>
    IN  [draft |-> IF StrField("$schema") # << >>
                   THEN FromSchemaUri(StrField("$schema")[1])
                   ELSE CompiledDefault.draft,
         schema_draft |-> StrField("$schema"),
         minimum |-> AsF64("minimum"),
         maximum |-> AsF64("maximum"),
         exclusive_minimum |-> Exclusive("exclusiveMinimum"),
         exclusive_maximum |-> Exclusive("exclusiveMaximum"),
         multiple_of |-> AsF64("multipleOf"),
         items |-> SchemaOrBool("items"),
         prefix_items |-> SchemaArrayField("prefixItems"),
         properties |-> SchemaObjectField("properties"),
         all_of |-> SchemaArrayField("allOf"),
         any_of |-> SchemaArrayField("anyOf"),
         one_of |-> SchemaArrayField("oneOf"),
         not |-> Schema("not"),
         if_schema |-> Schema("if"),
         then_schema |-> Schema("then"),
         else_schema |-> Schema("else"),
         definitions |-> SchemaObjectField("definitions"),
         defs |-> SchemaObjectField("$defs")]

\* The keywords by the value each takes.
NumericKeywords ==
    {"minimum", "maximum", "exclusiveMinimum", "exclusiveMaximum", "multipleOf"}
SchemaKeywords == {"items", "not", "if", "then", "else"}
SchemaArrayKeywords == {"prefixItems", "allOf", "anyOf", "oneOf"}
SchemaObjectKeywords == {"properties", "definitions", "$defs"}

\* The sub-schemas: a boolean, the empty schema, one that declares a draft of
\* its own, one with a sub-schema of its own.
SubschemaValues ==
    {ValueBool(FALSE),
     ValueObject(<< >>),
     ValueObject([k \in {"$schema"} |->
                     ValueString(<<"http://json-schema.org/", "draft-06", "/schema#">>)]),
     ValueObject([k \in {"items"} |-> ValueObject(<< >>)])}

\* The values a schema JSON gives a keyword: of the kind the keyword takes and
\* of other kinds.
ValuesOf(key) ==
    IF key = "$schema"
    THEN {ValueString(uri) : uri \in DraftUris} \cup {ValueNumber(5)}
    ELSE IF key \in NumericKeywords
    THEN {ValueBool(TRUE), ValueNumber(5), ValueString(<<"5">>)}
    ELSE IF key \in SchemaKeywords THEN SubschemaValues
    ELSE IF key \in SchemaArrayKeywords
    THEN {ValueArray(<<v>>) : v \in SubschemaValues}
    ELSE {ValueObject([k \in {"a"} |-> v]) : v \in SubschemaValues}

\* The objects of up to n members.
RECURSIVE ObjectsOf(_)
ObjectsOf(n) ==
    IF n = 0 THEN {<< >>}
    ELSE LET smaller == ObjectsOf(n - 1)
             keys == {"$schema"} \cup NumericKeywords \cup SchemaKeywords
                     \cup SchemaArrayKeywords \cup SchemaObjectKeywords
         IN  smaller \cup
             UNION {{[x \in DOMAIN map \cup {key} |->
                         IF x = key THEN v ELSE map[x]] : v \in ValuesOf(key)} :
                       map \in smaller, key \in keys}

\* A schema JSON was fetched, nothing is compiled yet.
InitCompile ==
    /\ Constructed
    /\ \E map \in ObjectsOf(MaxMembers) :
          raw \in {<<ValueObject(map)>>, <<ValueBool(FALSE)>>, <<ValueNumber(5)>>}
    /\ schema = << >>
    /\ resolved = << >>
    /\ tree = << >>
    /\ definition = << >>

\* resolve_schema, line 81: JsonSchema::from_value(&raw)
FromValueCall ==
    /\ schema = << >>
    /\ schema' = FromValue(raw[1])
    /\ UNCHANGED <<documents, associations, cache, debounce_versions, handlers,
                   Clock, client_version, change_publishes, bump_times,
                   fetch_count, fetch_failed, document, input_edit, poisoned,
                   Params, resolved, tree, definition, raw>>

NextCompile == FromValueCall

SpecCompile == InitCompile /\ [][NextCompile]_vars

\* C21: a numeric keyword whose value is of the wrong kind is skipped: when
\* exclusiveMinimum or exclusiveMaximum of the schema JSON is neither a
\* boolean nor a number, the compiled schema has no exclusive limit for it,
\* as it has no minimum, maximum or multipleOf when their value is not a
\* number.
C21_WrongKindSkipped ==
    (schema # << >> /\ raw[1].kind = "object") =>
        LET map == raw[1].object
            Skipped(key, kinds) ==
                key \in DOMAIN map /\ map[key].kind \notin kinds
        IN  /\ Skipped("exclusiveMinimum", {"bool", "number"})
                  => schema.exclusive_minimum = << >>
            /\ Skipped("exclusiveMaximum", {"bool", "number"})
                  => schema.exclusive_maximum = << >>
            /\ Skipped("minimum", {"number"}) => schema.minimum = << >>
            /\ Skipped("maximum", {"number"}) => schema.maximum = << >>
            /\ Skipped("multipleOf", {"number"}) => schema.multiple_of = << >>

\* The schemas directly under a compiled schema.
Children(s) ==
    LET Range(f) == {f[x] : x \in DOMAIN f}
    IN  Range(s.prefix_items) \cup Range(s.properties) \cup Range(s.all_of)
        \cup Range(s.any_of) \cup Range(s.one_of) \cup Range(s.not)
        \cup Range(s.if_schema) \cup Range(s.then_schema)
        \cup Range(s.else_schema) \cup Range(s.definitions) \cup Range(s.defs)
        \cup UNION {Range(AsSchema(x)) : x \in Range(s.items)}

\* The schemas reachable from a compiled schema, itself excluded.
RECURSIVE Reachable(_)
Reachable(s) == Children(s) \cup UNION {Reachable(sub) : sub \in Children(s)}

\* C30: the draft is uniform across a compiled schema: when the root object
\* declares a "$schema" URI, every sub-schema reachable from it that declares
\* none of its own has the draft of the root.
C30_DraftUniform ==
    (/\ schema # << >>
     /\ raw[1].kind = "object"
     /\ "$schema" \in DOMAIN raw[1].object
     /\ raw[1].object["$schema"].kind = "string")
    => \A sub \in Reachable(schema) :
          sub.schema_draft = << >> => sub.draft = schema.draft

\* ------------------------------------------------------------------ the locks

\* What a handler does to the locks, in program order: lock().unwrap(), the
\* drop of the guard, an await in between.
Lock(l) == [ins |-> "lock", lock |-> l]
Unlock(l) == [ins |-> "unlock", lock |-> l]
Await == [ins |-> "await", lock |-> None]

\* A block that takes the state lock and drops the guard at its end.
UnderState == <<Lock("state"), Unlock("state")>>

\* A capture whose state guard outlives its block.
CaptureHeld == <<Lock("state")>>

\* validate_and_publish, lines 118-137: the capture block.
Capture == UnderState

\* resolve_schema by its paths: Resolved or None (65-70, 73, 89); NeedsFetch
\* with the agent read under the state lock (75), the fetch awaited (77-80)
\* and failed; the same with the fetch succeeded and the insert under the
\* state lock (82-86).
ResolveSchemaPaths ==
    {UnderState,
     UnderState \o UnderState \o <<Await>>,
     UnderState \o UnderState \o <<Await>> \o UnderState}

\* validate_and_publish by its paths: not open (121-124); no schema needed
\* (118-137, 166-168); schema needed (139-164): state, then regex_cache, both
\* guards dropped at the end of the block in reverse order, then the publish.
ValidateAndPublishPaths ==
    {Capture, Capture \o <<Await>>}
    \cup {Capture \o resolve
          \o <<Lock("state"), Lock("regex_cache"),
               Unlock("regex_cache"), Unlock("state"), Await>> :
             resolve \in ResolveSchemaPaths}

\* debounced_validate by its paths: the bump under debounce_versions
\* (96-101), the sleep (103), the check under debounce_versions (105-108),
\* then the return (110) or validate_and_publish (113).
DebouncedValidatePaths ==
    {<<Lock("debounce_versions"), Unlock("debounce_versions"), Await,
       Lock("debounce_versions"), Unlock("debounce_versions")>> \o rest :
        rest \in {<< >>} \cup ValidateAndPublishPaths}

\* The handlers that take a lock.
LockOps ==
    {"did_open", "did_change", "did_save", "did_close",
     "did_change_configuration", "hover", "completion", "execute_command"}
    \cup ReadOnlyOps

\* Each handler by its paths.
Paths(op) ==
    IF op = "did_open"
    THEN {UnderState \o path : path \in ValidateAndPublishPaths}
    ELSE IF op = "did_change"
    THEN {UnderState \o path : path \in DebouncedValidatePaths}
    ELSE IF op = "did_save" THEN ValidateAndPublishPaths
    ELSE IF op = "did_close" THEN {UnderState \o <<Await>>}
    ELSE IF op \in {"hover", "completion"}
    THEN {UnderState}
         \cup {UnderState \o resolve \o UnderState : resolve \in ResolveSchemaPaths}
    ELSE IF op = "execute_command" THEN {UnderState, UnderState \o <<Await>>}
    ELSE {UnderState}

\* A handler future at instruction pc of its path, with the guards it holds.
LockHandlers ==
    UNION {{[op |-> op, program |-> program, pc |-> 1, holds |-> {}] :
               program \in Paths(op)} : op \in LockOps}

\* The bags of up to n handler futures that have not run yet.
RECURSIVE HandlerBags(_)
HandlerBags(n) ==
    IF n = 0 THEN {EmptyBag}
    ELSE LET fewer == HandlerBags(n - 1)
         IN  fewer \cup {bag (+) SetToBag({rec}) :
                            bag \in fewer, rec \in LockHandlers}

\* Up to MaxHandlers handler futures were created and none has run yet.
InitLocks ==
    /\ handlers \in HandlerBags(MaxHandlers)
    /\ documents = [u \in {} |-> None]
    /\ associations = << >>
    /\ cache = {}
    /\ debounce_versions = [u \in DocURIs |-> 0]
    /\ now = 0
    /\ ticks = 0
    /\ client_version = 0
    /\ change_publishes = [u \in DocURIs |-> << >>]
    /\ bump_times = [u \in DocURIs |-> << >>]
    /\ fetch_count = [s \in SchemaURIs |-> 0]
    /\ fetch_failed = [s \in SchemaURIs |-> 0]
    /\ document = << >>
    /\ input_edit = << >>
    /\ poisoned = FALSE
    /\ content_changes = << >>
    /\ settings = << >>
    /\ schema = << >>
    /\ resolved = << >>
    /\ tree = << >>
    /\ definition = << >>
    /\ raw = << >>

\* The instruction a handler is at.
Instruction(rec) == rec.program[rec.pc]

\* One handler executes its instruction: a lock is taken when it is free, and
\* the caller waits until then; the handler leaves after its last one.
LockStep(rec) ==
    /\ Instruction(rec).ins = "lock" => Free(Instruction(rec).lock)
    /\ handlers' =
          (handlers (-) SetToBag({rec}))
          (+) IF rec.pc = Len(rec.program) THEN EmptyBag
              ELSE SetToBag({[rec EXCEPT
                      !.pc = @ + 1,
                      !.holds =
                          IF Instruction(rec).ins = "lock"
                          THEN @ \cup {Instruction(rec).lock}
                          ELSE IF Instruction(rec).ins = "unlock"
                          THEN @ \ {Instruction(rec).lock}
                          ELSE @]})
    /\ UNCHANGED <<documents, associations, cache, debounce_versions, Clock,
                   client_version, fetch_failed>>
    /\ Unobserved

NextLocks == \E rec \in InFlight : LockStep(rec)

\* The handlers interleaved at every lock operation, as threads would be;
\* the single-threaded runtime interleaves them at their awaits only.  Every
\* handler that can take a step eventually takes one: the runtime polls the
\* futures that are ready, and the sleep, the fetch and the client respond.
SpecLocks == InitLocks /\ [][NextLocks]_vars /\ WF_vars(NextLocks)

\* A handler asks for the lock.
Requested(l) == \E rec \in InFlight : Instruction(rec) = Lock(l)

\* The order in which the locks are taken.
LockOrder ==
    \A rec \in InFlight :
        /\ Cardinality(rec.holds) > 1
              => /\ rec.holds = {"state", "regex_cache"}
                 /\ rec.op \in ValidationOps
        /\ Instruction(rec) = Lock("state") => rec.holds = {}
        /\ Instruction(rec) = Lock("regex_cache") => rec.holds = {"state"}
        /\ Instruction(rec) = Lock("debounce_versions") => rec.holds = {}
        /\ "debounce_versions" \in rec.holds
              => /\ rec.holds = {"debounce_versions"}
                 /\ Instruction(rec) = Unlock("debounce_versions")

\* C23: the server cannot deadlock on its locks: two locks are held together
\* only by a validation, state and regex_cache, taken in that order; state is
\* never asked for while another lock is held; debounce_versions is held
\* alone and released before anything else is asked for; and every request
\* for a lock is eventually granted.
C23_NoDeadlock ==
    /\ []LockOrder
    /\ \A l \in LockNames : Requested(l) ~> ~Requested(l)

\* A validation holds state and regex_cache while another handler asks for
\* state and has to wait.
C23_Witness ==
    \E validating, waiting \in InFlight :
        /\ validating.holds = {"state", "regex_cache"}
        /\ Instruction(waiting) = Lock("state")
        /\ waiting.pc > 1

====
